---- MODULE Spec2Model ----
(***************************************************************************)
(* Model of the backtesting engine (BacktestEngine.backtest and its        *)
(* helpers), of the strategy contract it calls, of the three exported      *)
(* strategies (copy trading, spike detection, market making), and of the   *)
(* page handlers (loadData, runBacktests) that drive the engine and        *)
(* publish to the store.                                                   *)
(*                                                                         *)
(* Representation                                                          *)
(*   - a Date is a natural number (epoch units, hours for the exported     *)
(*     strategies); a null Date is NullDate.                               *)
(*   - a string|null outcome is a string; null is NullOutcome.             *)
(*   - prices are in cents (1..99 for 0.01..0.99); amounts are in whole    *)
(*     dollars; cost, payout and earnings are in cents.                    *)
(*   - a ratio (winRate, roi, averages) is an exact fraction [n, d].       *)
(*   - the caller's market objects are markets[1..n]; an array of          *)
(*     references to them (sortedMarkets, testMarkets, ...) is a sequence  *)
(*     of indices into markets.  The outcomes array of market object i     *)
(*     lives in outcomesHeap[ref]; a market record holds the ref.          *)
(***************************************************************************)
EXTENDS Integers, Sequences, FiniteSets, TLC

VARIABLES
    caller,              \* who invokes backtest: "direct" or "page" (runBacktests)
    strategy,            \* the Strategy value under test
    markets,             \* the caller's markets array (objects by index)
    outcomesHeap,        \* contents of the outcomes arrays, by reference
    trainingRatio,       \* <<num, den>> of the trainingRatio argument
    pc,                  \* position inside backtest
    trainingMarkets,     \* references (indices) of the training partition
    testMarkets,         \* references (indices) of the test partition
    preparedTestMarkets, \* the snapshot objects handed to the strategy
    backtestContext,     \* <<>> or <<context>> handed to the strategy
    proposedBets,        \* what generateBets returned
    returned,            \* <<>> or <<BacktestResult>> returned by backtest
    thrown,              \* "" or the error that left backtest
    marketsAtCall,       \* the caller's markets as they were when backtest was called
    pagePc,              \* position inside loadData / runBacktests
    storeMarkets,        \* store.markets
    historicalStats,     \* store.historicalStats (<<>> is null)
    backtestResults,     \* store.backtestResults
    benchmarks,          \* store.benchmarks
    isLoading,           \* store.isLoading
    error,               \* store.error ("" is null)
    now,                 \* the wall clock: what new Date() returns
    liveBets,            \* <<>> or <<bets>> returned by a live generateBets call
    previousReturned,    \* <<>> or what the previous backtest call returned
    rawMarket,           \* the data route: what the sources hold for the market in hand
    routePc,             \* the data route: position inside the loop body
    processed,           \* the data route: volume, liquidity, historicalPrices, trades
    simPc,               \* position inside handleStart / startSimulation
    simulation,          \* store.simulation
    strategies,          \* store.strategies, which currentStrategies follows
    controlsIsRunning,   \* SimulationControls' local isRunning
    epoch,               \* startSimulation's loop variable
    epochResults         \* the epochs whose results startSimulation has stored

vars == <<caller, strategy, markets, outcomesHeap, trainingRatio, pc,
          trainingMarkets, testMarkets, preparedTestMarkets, backtestContext,
          proposedBets, returned, thrown, marketsAtCall, pagePc, storeMarkets,
          historicalStats, backtestResults, benchmarks, isLoading, error, now,
          liveBets, previousReturned, rawMarket, routePc, processed, simPc,
          simulation, strategies, controlsIsRunning, epoch, epochResults>>

engineVars == <<pc, trainingMarkets, testMarkets, preparedTestMarkets,
                backtestContext, proposedBets, returned, thrown, marketsAtCall>>

inputVars == <<caller, strategy, markets, trainingRatio>>

storeVars == <<storeMarkets, historicalStats, backtestResults, benchmarks,
               isLoading, error>>

callVars == <<now, liveBets, previousReturned>>

routeVars == <<rawMarket, routePc, processed>>

simVars == <<simPc, simulation, strategies, controlsIsRunning, epoch,
             epochResults>>

----------------------------------------------------------------------------
(* Bounds of the model *)

MaxMarkets == 3
MaxBets == 2
MaxDate == 2

----------------------------------------------------------------------------
(* Values *)

NullDate == 0
NullOutcome == "<null>"

RECURSIVE SeqSum(_)
SeqSum(s) == IF s = <<>> THEN 0 ELSE Head(s) + SeqSum(Tail(s))

RECURSIVE SeqFilterIdx(_, _, _)
\* the elements of s whose position is in keep, in order
SeqFilterIdx(s, keep, i) ==
    IF i > Len(s) THEN <<>>
    ELSE (IF i \in keep THEN <<s[i]>> ELSE <<>>) \o SeqFilterIdx(s, keep, i + 1)

Range(s) == {s[i] : i \in 1..Len(s)}

\* String.prototype.toLowerCase on the outcome labels the model uses
ToLowerCase(s) ==
    CASE s = "Yes" -> "yes"
      [] s = "YES" -> "yes"
      [] s = "yes" -> "yes"
      [] s = "No" -> "no"
      [] s = "NO" -> "no"
      [] s = "no" -> "no"
      [] OTHER -> s

----------------------------------------------------------------------------
(* lodash orderBy(collection, [key], ['asc']) *)

\* lodash compareAscending: defined values ascending, null after every value
CompareAscending(value, other) ==
    IF value = other THEN 0
    ELSE IF value = NullDate THEN 1
    ELSE IF other = NullDate THEN -1
    ELSE IF value > other THEN 1
    ELSE -1

RECURSIVE InsertByCriteria(_, _)
\* pairs are <<criteria, value>>; x goes after every pair that does not
\* compare greater, so equal criteria keep their input order
InsertByCriteria(sorted, x) ==
    IF sorted = <<>> THEN <<x>>
    ELSE IF CompareAscending(Head(sorted)[1], x[1]) <= 0
         THEN <<Head(sorted)>> \o InsertByCriteria(Tail(sorted), x)
         ELSE <<x>> \o sorted

RECURSIVE BaseSortBy(_)
BaseSortBy(pairs) ==
    IF pairs = <<>> THEN <<>>
    ELSE InsertByCriteria(BaseSortBy(SubSeq(pairs, 1, Len(pairs) - 1)),
                          pairs[Len(pairs)])

\* criteria[i] is the sort key of collection[i]
OrderBy(collection, criteria) ==
    LET pairs == [i \in 1..Len(collection) |-> <<criteria[i], collection[i]>>]
        sorted == BaseSortBy(pairs)
    IN [i \in 1..Len(sorted) |-> sorted[i][2]]

\* Array.prototype.slice(start, end) on a 0-based index range
SliceIndex(k, len) ==
    IF k < 0 THEN (IF len + k < 0 THEN 0 ELSE len + k)
    ELSE IF k > len THEN len ELSE k

Slice(s, start, end) ==
    SubSeq(s, SliceIndex(start, Len(s)) + 1, SliceIndex(end, Len(s)))

----------------------------------------------------------------------------
(* BacktestEngine *)

DefaultTrainingRatio == <<4, 5>>

Fraction(num, den) == [n |-> num, d |-> den]
Zero == Fraction(0, 1)

\* resolvedMarkets = markets.filter(m => m.resolvedOutcome !== null)
ResolvedMarkets(ms) ==
    SeqFilterIdx([i \in 1..Len(ms) |-> i],
                 {i \in 1..Len(ms) : ms[i].resolvedOutcome # NullOutcome}, 1)

\* SortedMarkets without the orderBy: the resolved markets in input order
SortedMarketsUnsorted(ms) == ResolvedMarkets(ms)

\* sortedMarkets = orderBy(resolvedMarkets, ['endDate'], ['asc'])
SortedMarkets(ms) ==
    LET resolved == ResolvedMarkets(ms)
    IN OrderBy(resolved, [i \in 1..Len(resolved) |-> ms[resolved[i]].endDate])

\* SplitIndex with Math.ceil for Math.floor
SplitIndexCeil(count, ratio) == (count * ratio[1] + ratio[2] - 1) \div ratio[2]

\* splitIndex = Math.floor(sortedMarkets.length * trainingRatio)
SplitIndex(count, ratio) == (count * ratio[1]) \div ratio[2]

TestMarkets(ms, ratio) ==
    LET sorted == SortedMarkets(ms)
    IN Slice(sorted, SplitIndex(Len(sorted), ratio), Len(sorted))

TrainingMarkets(ms, ratio) ==
    LET sorted == SortedMarkets(ms)
    IN Slice(sorted, 0, SplitIndex(Len(sorted), ratio))

Timestamps(points) == [i \in 1..Len(points) |-> points[i].timestamp]

\* PrepareMarketSnapshot without the two orderBy calls
PrepareMarketSnapshotUnsorted(market) ==
    [market EXCEPT !.active = TRUE, !.resolvedOutcome = NullOutcome]

\* the spread keeps every other field, so the outcomes reference is shared
PrepareMarketSnapshot(market) ==
    [market EXCEPT
        !.active = TRUE,
        !.resolvedOutcome = NullOutcome,
        !.historicalPrices =
            OrderBy(market.historicalPrices, Timestamps(market.historicalPrices)),
        !.trades = OrderBy(market.trades, Timestamps(market.trades))]

\* IsBetWinner that takes a sell for a buy
IsBetWinnerIgnoresSide(bet, resolvedOutcome) ==
    ToLowerCase(bet.outcome) = ToLowerCase(resolvedOutcome)

\* IsBetWinner without toLowerCase
IsBetWinnerCaseSensitive(bet, resolvedOutcome) ==
    IF bet.side = "buy"
    THEN bet.outcome = resolvedOutcome
    ELSE bet.outcome # resolvedOutcome

IsBetWinner(bet, resolvedOutcome) ==
    IF bet.side = "buy"
    THEN ToLowerCase(bet.outcome) = ToLowerCase(resolvedOutcome)
    ELSE ToLowerCase(bet.outcome) # ToLowerCase(resolvedOutcome)

\* FindMarket with markets.find for testMarkets.find
FindMarketAnywhere(ms, test, id) ==
    LET hits == {i \in 1..Len(ms) : ms[i].marketId = id}
    IN IF hits = {} THEN 0 ELSE CHOOSE i \in hits : \A j \in hits : i <= j

\* testMarkets.find(m => m.marketId === id): the reference, or 0 for undefined
FindMarket(ms, test, id) ==
    LET hits == {i \in 1..Len(test) : ms[test[i]].marketId = id}
    IN IF hits = {} THEN 0
       ELSE test[CHOOSE i \in hits : \A j \in hits : i <= j]

\* !market || !market.resolvedOutcome
IsDiscarded(ms, ref) ==
    \/ ref = 0
    \/ ms[ref].resolvedOutcome \in {NullOutcome, ""}

\* ScoreBet with the amount as the cost, whatever the priceLimit
ScoreBetCostIsAmount(bet, resolvedOutcome) ==
    LET betWon == IsBetWinner(bet, resolvedOutcome)
    IN [marketId |-> bet.marketId, outcome |-> bet.outcome, side |-> bet.side,
        amount |-> bet.amount, priceLimit |-> bet.priceLimit,
        reason |-> bet.reason, timestamp |-> bet.timestamp,
        result |-> IF betWon THEN "win" ELSE "loss",
        payout |-> IF betWon THEN bet.amount * 100 ELSE 0,
        cost |-> bet.amount * 100]

\* one iteration of proposedBets.forEach for a bet that is scored
ScoreBet(bet, resolvedOutcome) ==
    LET betWon == IsBetWinner(bet, resolvedOutcome)
    IN [marketId |-> bet.marketId, outcome |-> bet.outcome, side |-> bet.side,
        amount |-> bet.amount, priceLimit |-> bet.priceLimit,
        reason |-> bet.reason, timestamp |-> bet.timestamp,
        result |-> IF betWon THEN "win" ELSE "loss",
        payout |-> IF betWon THEN bet.amount * 100 ELSE 0,
        cost |-> bet.amount * bet.priceLimit]

RECURSIVE SimulateBetsKeepPending(_, _, _)
\* SimulateBets that keeps a bet it cannot score, as pending
SimulateBetsKeepPending(ms, test, bets) ==
    IF bets = <<>> THEN <<>>
    ELSE LET bet == Head(bets)
             ref == FindMarket(ms, test, bet.marketId)
         IN (IF IsDiscarded(ms, ref)
             THEN <<[marketId |-> bet.marketId, outcome |-> bet.outcome,
                     side |-> bet.side, amount |-> bet.amount,
                     priceLimit |-> bet.priceLimit, reason |-> bet.reason,
                     timestamp |-> bet.timestamp, result |-> "pending",
                     payout |-> 0, cost |-> 0]>>
             ELSE <<ScoreBet(bet, ms[ref].resolvedOutcome)>>)
            \o SimulateBetsKeepPending(ms, test, Tail(bets))

RECURSIVE SimulateBetsAnyMarket(_, _, _)
\* SimulateBets that looks the market up in the whole pool and scores the bet
\* against whatever resolvedOutcome it carries, null included
SimulateBetsAnyMarket(ms, test, bets) ==
    IF bets = <<>> THEN <<>>
    ELSE LET bet == Head(bets)
             ref == FindMarketAnywhere(ms, test, bet.marketId)
         IN (IF ref = 0 THEN <<>>
             ELSE <<ScoreBet(bet, ms[ref].resolvedOutcome)>>)
            \o SimulateBetsAnyMarket(ms, test, Tail(bets))

RECURSIVE SimulateBetsWinnersOnly(_, _, _)
\* SimulateBets that keeps a bet only when it won
SimulateBetsWinnersOnly(ms, test, bets) ==
    IF bets = <<>> THEN <<>>
    ELSE LET bet == Head(bets)
             ref == FindMarket(ms, test, bet.marketId)
         IN (IF IsDiscarded(ms, ref) \/ ~IsBetWinner(bet, ms[ref].resolvedOutcome)
             THEN <<>>
             ELSE <<ScoreBet(bet, ms[ref].resolvedOutcome)>>)
            \o SimulateBetsWinnersOnly(ms, test, Tail(bets))

RECURSIVE SimulateBets(_, _, _)
\* backtestBets after proposedBets.forEach
SimulateBets(ms, test, bets) ==
    IF bets = <<>> THEN <<>>
    ELSE LET bet == Head(bets)
             ref == FindMarket(ms, test, bet.marketId)
         IN (IF IsDiscarded(ms, ref) THEN <<>>
             ELSE <<ScoreBet(bet, ms[ref].resolvedOutcome)>>)
            \o SimulateBets(ms, test, Tail(bets))

RECURSIVE EarningsOverTimePerBet(_, _, _)
\* EarningsOverTime whose points carry the bet's own earnings, not the sum
EarningsOverTimePerBet(backtestBets, cumulativeEarnings, strategyId) ==
    IF backtestBets = <<>> THEN <<>>
    ELSE LET b == Head(backtestBets)
         IN <<[timestamp |-> b.timestamp,
               cumulativeEarnings |-> cumulativeEarnings + b.payout - b.cost,
               strategyId |-> strategyId]>>
            \o EarningsOverTimePerBet(Tail(backtestBets), cumulativeEarnings,
                                      strategyId)

RECURSIVE EarningsOverTime(_, _, _)
\* one point per scored bet, carrying the running cumulativeEarnings
EarningsOverTime(backtestBets, cumulativeEarnings, strategyId) ==
    IF backtestBets = <<>> THEN <<>>
    ELSE LET b == Head(backtestBets)
             c == cumulativeEarnings + b.payout - b.cost
         IN <<[timestamp |-> b.timestamp, cumulativeEarnings |-> c,
               strategyId |-> strategyId]>>
            \o EarningsOverTime(Tail(backtestBets), c, strategyId)

CountResult(backtestBets, r) ==
    Cardinality({i \in 1..Len(backtestBets) : backtestBets[i].result = r})

\* WinRate without the guard on backtestBets.length
WinRateUnguarded(wins, totalBets) == Fraction(wins * 100, totalBets)

\* backtestBets.length > 0 ? (wins / backtestBets.length) * 100 : 0
WinRate(wins, totalBets) ==
    IF totalBets > 0 THEN Fraction(wins * 100, totalBets) ELSE Zero

\* totalCost > 0 ? (netProfit / totalCost) * 100 : 0
Roi(netProfit, totalCost) ==
    IF totalCost > 0 THEN Fraction(netProfit * 100, totalCost) ELSE Zero

BacktestResult(strat, ms, test, bets) ==
    LET backtestBets == SimulateBets(ms, test, bets)
        wins == CountResult(backtestBets, "win")
        losses == CountResult(backtestBets, "loss")
        totalCost == SeqSum([i \in 1..Len(backtestBets) |-> backtestBets[i].cost])
        totalWinnings ==
            SeqSum([i \in 1..Len(backtestBets) |-> backtestBets[i].payout])
        netProfit == totalWinnings - totalCost
    IN [strategyId |-> strat.id,
        strategyName |-> strat.name,
        totalBets |-> Len(backtestBets),
        wins |-> wins,
        losses |-> losses,
        winRate |-> WinRate(wins, Len(backtestBets)),
        totalCost |-> totalCost,
        totalWinnings |-> totalWinnings,
        netProfit |-> netProfit,
        roi |-> Roi(netProfit, totalCost),
        bets |-> backtestBets,
        earningsOverTime |-> EarningsOverTime(backtestBets, 0, strat.id)]

\* the caller's view of its markets: every record with its outcomes array
Deref(ms, heap) ==
    [i \in 1..Len(ms) |-> [ms[i] EXCEPT !.outcomes = heap[ms[i].outcomes]]]

\* variance of one market: mean of (price - 0.5)^2, prices in cents
Variance(market) ==
    Fraction(SeqSum([i \in 1..Len(market.historicalPrices) |->
                       (market.historicalPrices[i].price - 50)
                       * (market.historicalPrices[i].price - 50)]),
             Len(market.historicalPrices))

RECURSIVE InsertByVariance(_, _)
\* .sort((a, b) => b.variance - a.variance): descending, stable
InsertByVariance(sorted, x) ==
    IF sorted = <<>> THEN <<x>>
    ELSE IF Head(sorted).variance.n * x.variance.d
            >= x.variance.n * Head(sorted).variance.d
         THEN <<Head(sorted)>> \o InsertByVariance(Tail(sorted), x)
         ELSE <<x>> \o sorted

RECURSIVE SortByVariance(_)
SortByVariance(s) ==
    IF s = <<>> THEN <<>>
    ELSE InsertByVariance(SortByVariance(SubSeq(s, 1, Len(s) - 1)), s[Len(s)])

\* Average without the guard on markets.length
AverageUnguarded(total, count) == Fraction(total, count)

\* markets.length > 0 ? total / markets.length : 0
Average(total, count) == IF count > 0 THEN Fraction(total, count) ELSE Zero

CalculateHistoricalStats(ms) ==
    LET resolved == ResolvedMarkets(ms)
        volatile ==
            SeqFilterIdx(ms, {i \in 1..Len(ms) : Len(ms[i].historicalPrices) > 10}, 1)
        ranked ==
            SortByVariance([i \in 1..Len(volatile) |->
                              [marketId |-> volatile[i].marketId,
                               question |-> volatile[i].question,
                               variance |-> Variance(volatile[i])]])
        labels == {ms[resolved[i]].resolvedOutcome : i \in 1..Len(resolved)}
    IN [totalMarkets |-> Len(ms),
        resolvedMarkets |-> Len(resolved),
        avgVolume |-> Average(SeqSum([i \in 1..Len(ms) |-> ms[i].volume]), Len(ms)),
        avgLiquidity |->
            Average(SeqSum([i \in 1..Len(ms) |-> ms[i].liquidity]), Len(ms)),
        volatileMarkets |-> Slice(ranked, 0, 5),
        topOutcomes |->
            [o \in labels |->
                Cardinality({i \in 1..Len(resolved) :
                               ms[resolved[i]].resolvedOutcome = o})]]

----------------------------------------------------------------------------
(* Reference strategies.  Time is in hours, prices and spreads in cents, the *)
(* spike threshold in percent; copyDelay stays in seconds as in the source.  *)

COPY_TRADING_DEFAULTS ==
    [minWhaleVolume |-> 1000, copyDelay |-> 7200, betSize |-> 100,
     maxBetsPerMarket |-> 3, minMarketLiquidity |-> 50000]

SPIKE_DETECTION_DEFAULTS ==
    [spikeThreshold |-> 5, lookbackWindow |-> 24, betSize |-> 100]

MARKET_MAKING_DEFAULTS ==
    [minSpread |-> 2, maxSpread |-> 8, betSizePerSide |-> 100,
     minLiquidity |-> 30000]

\* context?.mode ?? 'live'; a missing context is <<>>
ResolveMode(context) == IF context = <<>> THEN "live" ELSE context[1].mode

\* IsMarketEligible that lets every market through
IsMarketEligibleAlways(market, mode) == TRUE

IsMarketEligible(market, mode) ==
    IF mode = "backtest" THEN TRUE
    ELSE market.resolvedOutcome \in {NullOutcome, ""} /\ market.active

\* DetermineDecisionTime that prefers the end date to the price history
DetermineDecisionTimeEndDateFirst(market, mode, clock) ==
    IF mode = "backtest" /\ market.endDate # NullDate THEN market.endDate
    ELSE IF mode = "backtest" /\ Len(market.historicalPrices) > 0
    THEN market.historicalPrices[Len(market.historicalPrices)].timestamp
    ELSE IF mode = "backtest" /\ market.resolutionDate # NullDate
    THEN market.resolutionDate
    ELSE clock

\* clock is what new Date() returns when the call is made
DetermineDecisionTime(market, mode, clock) ==
    IF mode = "backtest" /\ Len(market.historicalPrices) > 0
    THEN market.historicalPrices[Len(market.historicalPrices)].timestamp
    ELSE IF mode = "backtest" /\ market.endDate # NullDate THEN market.endDate
    ELSE IF mode = "backtest" /\ market.resolutionDate # NullDate
    THEN market.resolutionDate
    ELSE clock

\* ClampPrice that returns the price as it is
ClampPriceNone(price) == price

\* Math.max(0.01, Math.min(0.99, price))
ClampPrice(price) ==
    LET capped == IF price > 99 THEN 99 ELSE price
    IN IF capped < 1 THEN 1 ELSE capped

\* orderBy(collection, [key], ['desc']): descending, equal keys in input order
RECURSIVE InsertDescending(_, _)
InsertDescending(sorted, x) ==
    IF sorted = <<>> THEN <<x>>
    ELSE IF Head(sorted)[1] >= x[1]
         THEN <<Head(sorted)>> \o InsertDescending(Tail(sorted), x)
         ELSE <<x>> \o sorted

RECURSIVE SortDescending(_)
SortDescending(pairs) ==
    IF pairs = <<>> THEN <<>>
    ELSE InsertDescending(SortDescending(SubSeq(pairs, 1, Len(pairs) - 1)),
                          pairs[Len(pairs)])

OrderByDesc(collection, criteria) ==
    LET pairs == [i \in 1..Len(collection) |-> <<criteria[i], collection[i]>>]
        sorted == SortDescending(pairs)
    IN [i \in 1..Len(sorted) |-> sorted[i][2]]

RECURSIVE Flatten(_)
\* the bets pushed market after market
Flatten(ss) == IF ss = <<>> THEN <<>> ELSE Head(ss) \o Flatten(Tail(ss))

\* TopWhales that takes the first trades in time order, not the largest
TopWhalesFirst(recentWhales, maxBetsPerMarket) ==
    Slice(recentWhales, 0, maxBetsPerMarket)

\* orderBy(recentWhales, ['amount'], ['desc']).slice(0, maxBetsPerMarket)
TopWhales(recentWhales, maxBetsPerMarket) ==
    Slice(OrderByDesc(recentWhales,
                      [i \in 1..Len(recentWhales) |-> recentWhales[i].amount]),
          0, maxBetsPerMarket)

\* the bets copyTradingStrategy.generateBets pushes for one market
CopyTradingMarketBets(market, mode, clock, params) ==
    IF ~IsMarketEligible(market, mode) THEN <<>>
    ELSE IF market.liquidity < params.minMarketLiquidity THEN <<>>
    ELSE
      LET decisionTime == DetermineDecisionTime(market, mode, clock)
          whaleTrades ==
            SelectSeq(market.trades,
                      LAMBDA trade : /\ trade.amount >= params.minWhaleVolume
                                     /\ trade.timestamp <= decisionTime)
          recentWhales ==
            SelectSeq(whaleTrades,
                      LAMBDA trade :
                        LET timeDiff == (decisionTime - trade.timestamp) * 3600
                        IN timeDiff >= 0 /\ timeDiff <= params.copyDelay)
          topWhales == TopWhales(recentWhales, params.maxBetsPerMarket)
      IN [i \in 1..Len(topWhales) |->
            [marketId |-> market.marketId,
             outcome |-> topWhales[i].outcome,
             side |-> topWhales[i].side,
             amount |-> params.betSize,
             priceLimit |-> ClampPrice(topWhales[i].price + 2),
             reason |-> "Whale",
             timestamp |-> decisionTime]]

CopyTradingBets(ms, mode, clock, params) ==
    Flatten([i \in 1..Len(ms) |-> CopyTradingMarketBets(ms[i], mode, clock, params)])

\* SpikeDetectionMarketBets that bets with the spike: buy when the price rose
SpikeDetectionMarketBetsMomentum(market, outcomes, mode, clock, params) ==
    IF ~IsMarketEligible(market, mode) THEN <<>>
    ELSE IF Len(market.historicalPrices) < 10 THEN <<>>
    ELSE
      LET decisionTime == DetermineDecisionTime(market, mode, clock)
          sortedPrices ==
            OrderBy(market.historicalPrices, Timestamps(market.historicalPrices))
          cutoffTime == decisionTime - params.lookbackWindow
          recentPrices ==
            SelectSeq(sortedPrices,
                      LAMBDA p : /\ p.timestamp >= cutoffTime
                                 /\ p.timestamp <= decisionTime)
      IN IF Len(recentPrices) < 5 THEN <<>>
         ELSE
           LET total == SeqSum([i \in 1..Len(recentPrices) |-> recentPrices[i].price])
               currentPrice == recentPrices[Len(recentPrices)].price
               excess == currentPrice * Len(recentPrices) - total
               magnitude == IF excess < 0 THEN -excess ELSE excess
               betSide == IF excess > 0 THEN "buy" ELSE "sell"
               targetPrice ==
                 IF betSide = "sell" THEN currentPrice - 3 ELSE currentPrice + 3
           IN IF magnitude * 100 > params.spikeThreshold * total
              THEN <<[marketId |-> market.marketId,
                      outcome |-> outcomes[1],
                      side |-> betSide,
                      amount |-> params.betSize,
                      priceLimit |-> ClampPrice(targetPrice),
                      reason |-> "Spike detected",
                      timestamp |-> decisionTime]>>
              ELSE <<>>

\* the bets spikeDetectionStrategy.generateBets pushes for one market;
\* |currentPrice - avg| / avg > threshold is compared after multiplying by the
\* sum of the recent prices
SpikeDetectionMarketBets(market, outcomes, mode, clock, params) ==
    IF ~IsMarketEligible(market, mode) THEN <<>>
    ELSE IF Len(market.historicalPrices) < 10 THEN <<>>
    ELSE
      LET decisionTime == DetermineDecisionTime(market, mode, clock)
          sortedPrices ==
            OrderBy(market.historicalPrices, Timestamps(market.historicalPrices))
          cutoffTime == decisionTime - params.lookbackWindow
          recentPrices ==
            SelectSeq(sortedPrices,
                      LAMBDA p : /\ p.timestamp >= cutoffTime
                                 /\ p.timestamp <= decisionTime)
      IN IF Len(recentPrices) < 5 THEN <<>>
         ELSE
           LET total == SeqSum([i \in 1..Len(recentPrices) |-> recentPrices[i].price])
               currentPrice == recentPrices[Len(recentPrices)].price
               excess == currentPrice * Len(recentPrices) - total
               magnitude == IF excess < 0 THEN -excess ELSE excess
               betSide == IF excess > 0 THEN "sell" ELSE "buy"
               targetPrice ==
                 IF betSide = "sell" THEN currentPrice - 3 ELSE currentPrice + 3
           IN IF magnitude * 100 > params.spikeThreshold * total
              THEN <<[marketId |-> market.marketId,
                      outcome |-> outcomes[1],
                      side |-> betSide,
                      amount |-> params.betSize,
                      priceLimit |-> ClampPrice(targetPrice),
                      reason |-> "Spike detected",
                      timestamp |-> decisionTime]>>
              ELSE <<>>

SpikeDetectionBets(ms, heap, mode, clock, params) ==
    Flatten([i \in 1..Len(ms) |->
               SpikeDetectionMarketBets(ms[i], heap[ms[i].outcomes], mode, clock,
                                        params)])

\* floor of the square root
ISqrt(n) == CHOOSE k \in 0..n : k * k <= n /\ n < (k + 1) * (k + 1)

\* Spread without the bounds: volatility * 2 as it is
SpreadUnbounded(recentPrices, currentPrice, params) ==
    LET n == Len(recentPrices)
        squares == SeqSum([i \in 1..n |-> (recentPrices[i].price - currentPrice)
                                           * (recentPrices[i].price - currentPrice)])
    IN IF n > 1 THEN ISqrt((4 * squares) \div n) ELSE 6

\* Math.max(minSpread, Math.min(maxSpread, volatility * 2)) in whole cents:
\* volatility * 2 is sqrt(4 * mean of squared deviations), or 6 for 0.03 * 2
Spread(recentPrices, currentPrice, params) ==
    LET n == Len(recentPrices)
        squares == SeqSum([i \in 1..n |-> (recentPrices[i].price - currentPrice)
                                           * (recentPrices[i].price - currentPrice)])
        twice == IF n > 1 THEN ISqrt((4 * squares) \div n) ELSE 6
        capped == IF twice > params.maxSpread THEN params.maxSpread ELSE twice
    IN IF capped < params.minSpread THEN params.minSpread ELSE capped

\* the bets marketMakingStrategy.generateBets pushes for one market
MarketMakingMarketBets(market, outcomes, mode, clock, params) ==
    IF ~IsMarketEligible(market, mode) THEN <<>>
    ELSE IF market.liquidity < params.minLiquidity THEN <<>>
    ELSE IF Len(market.historicalPrices) = 0 THEN <<>>
    ELSE
      LET currentPrice == market.historicalPrices[Len(market.historicalPrices)].price
          decisionTime == DetermineDecisionTime(market, mode, clock)
          recentPrices ==
            Slice(market.historicalPrices, -20, Len(market.historicalPrices))
          spread == Spread(recentPrices, currentPrice, params)
      IN <<[marketId |-> market.marketId,
            outcome |-> outcomes[1],
            side |-> "buy",
            amount |-> params.betSizePerSide,
            priceLimit |-> ClampPrice(currentPrice - spread \div 2),
            reason |-> "Market making: bid",
            timestamp |-> decisionTime],
           [marketId |-> market.marketId,
            outcome |-> outcomes[1],
            side |-> "sell",
            amount |-> params.betSizePerSide,
            priceLimit |-> ClampPrice(currentPrice + spread \div 2),
            reason |-> "Market making: ask",
            timestamp |-> decisionTime]>>

MarketMakingBets(ms, heap, mode, clock, params) ==
    Flatten([i \in 1..Len(ms) |->
               MarketMakingMarketBets(ms[i], heap[ms[i].outcomes], mode, clock,
                                      params)])

\* the exported strategy objects; throws, writes and bets describe a
\* generateBets that is not one of the three below
copyTradingStrategy ==
    [id |-> "copy_trading", name |-> "Whale Copy Trading", type |-> "copy_trading",
     parameters |-> COPY_TRADING_DEFAULTS,
     throws |-> FALSE, writes |-> "none", bets |-> <<>>]

\* spikeDetectionStrategy with a generateBets that empties the arrays it read
spikeDetectionStrategyConsuming ==
    [id |-> "spike_detection", name |-> "Price Spike Reversal",
     type |-> "spike_detection", parameters |-> SPIKE_DETECTION_DEFAULTS,
     throws |-> FALSE, writes |-> "arrays", bets |-> <<>>]

spikeDetectionStrategy ==
    [id |-> "spike_detection", name |-> "Price Spike Reversal",
     type |-> "spike_detection", parameters |-> SPIKE_DETECTION_DEFAULTS,
     throws |-> FALSE, writes |-> "none", bets |-> <<>>]

marketMakingStrategy ==
    [id |-> "market_making", name |-> "Liquidity Provider Market Making",
     type |-> "market_making", parameters |-> MARKET_MAKING_DEFAULTS,
     throws |-> FALSE, writes |-> "none", bets |-> <<>>]

\* the strategy pool the store starts with
defaultStrategies == <<copyTradingStrategy>>

ReferenceTypes == {"copy_trading", "spike_detection", "market_making"}

\* strat.generateBets(ms, context) for a strategy that returns: the function of
\* an exported strategy stays the exported one when only parameters change.
\* copyTradingStrategy reads the parameters of the exported object, the other
\* two read their DEFAULTS constant.
StrategyGenerateBets(strat, ms, heap, context, clock) ==
    CASE strat.type = "copy_trading" ->
           CopyTradingBets(ms, ResolveMode(context), clock,
                           copyTradingStrategy.parameters)
      [] strat.type = "spike_detection" ->
           SpikeDetectionBets(ms, heap, ResolveMode(context), clock,
                              SPIKE_DETECTION_DEFAULTS)
      [] strat.type = "market_making" ->
           MarketMakingBets(ms, heap, ResolveMode(context), clock,
                            MARKET_MAKING_DEFAULTS)
      [] OTHER -> strat.bets

\* { ...s, parameters: { ...s.parameters, ...improvedParameters } }
ImprovedStrategy(s, improvedParameters) ==
    [s EXCEPT !.parameters =
       [k \in DOMAIN s.parameters \cup DOMAIN improvedParameters |->
          IF k \in DOMAIN improvedParameters THEN improvedParameters[k]
          ELSE s.parameters[k]]]

----------------------------------------------------------------------------
(* Inputs *)

PricePoint(t, p) == [timestamp |-> t, price |-> p, outcome |-> "Yes"]

Trade(t, a) ==
    [timestamp |-> t, side |-> "buy", amount |-> a, price |-> 60, outcome |-> "Yes"]

\* a market as the data route builds it; object i owns outcomes array i
Market(i, endDate, resolvedOutcome, prices, trades) ==
    [marketId |-> i, question |-> "q", outcomes |-> i,
     resolutionDate |-> endDate, historicalPrices |-> prices, trades |-> trades,
     resolvedOutcome |-> resolvedOutcome, volume |-> 1000 * i,
     liquidity |-> 60000, active |-> (resolvedOutcome = NullOutcome),
     endDate |-> endDate]

InitialOutcomes == <<"Yes", "No">>

Dates == 0..MaxDate
ResolvedOutcomes == {NullOutcome, "Yes", "No"}

PriceHistories ==
    {<<>>,
     <<PricePoint(1, 40), PricePoint(2, 60)>>,
     <<PricePoint(2, 60), PricePoint(1, 40)>>}

TradeHistories ==
    {<<>>,
     <<Trade(2, 5000), Trade(1, 500), Trade(2, 700)>>}

Ratios == {<<0, 1>>, <<1, 2>>, <<4, 5>>, <<1, 1>>}

BetTerms == {[amount |-> 100, priceLimit |-> 60, timestamp |-> 2],
             [amount |-> 50, priceLimit |-> 30, timestamp |-> 1]}

Bet(id, outcome, side, terms) ==
    [marketId |-> id, outcome |-> outcome, side |-> side,
     amount |-> terms.amount, priceLimit |-> terms.priceLimit,
     reason |-> "r", timestamp |-> terms.timestamp]

\* the markets of a pool of bets, and the ids bets may name: one id is unknown
BetPool == 1..3
BetMarketIds == BetPool \cup {4}

\* consecutive bets of one strategy carry different terms
TermsAt(first, i) ==
    IF i % 2 = 1 THEN first ELSE CHOOSE t \in BetTerms : t # first

WriteKinds == {"none", "fields", "arrays", "outcomes"}

\* a strategy is described by what its generateBets does when called
Strategy(throws, writes, bets) ==
    [id |-> "s1", name |-> "S1", type |-> "ai_generated", parameters |-> <<>>,
     throws |-> throws, writes |-> writes, bets |-> bets]

\* a bet that costs nothing: priceLimit 0
FreeTerms == [amount |-> 100, priceLimit |-> 0, timestamp |-> 1]

BasicStrategies ==
    {Strategy(TRUE, "none", <<>>)}
    \cup {Strategy(FALSE, w, <<>>) : w \in WriteKinds}
    \cup {Strategy(FALSE, "none", <<Bet(1, "yes", "buy", t)>>) :
             t \in BetTerms \cup {FreeTerms}}

\* pools for the exported strategies; the clock of a pool is not before its data
WhaleTrade(t, side, a, p, o) ==
    [timestamp |-> t, side |-> side, amount |-> a, price |-> p, outcome |-> o]

WhaleTradeHistories ==
    {<<>>,
     <<WhaleTrade(9, "buy", 5000, 60, "Yes")>>,
     <<WhaleTrade(10, "sell", 7000, 98, "No"), WhaleTrade(12, "buy", 9000, 50, "Yes"),
       WhaleTrade(8, "buy", 1000, 99, "Yes"), WhaleTrade(7, "buy", 8000, 50, "Yes"),
       WhaleTrade(9, "sell", 999, 50, "Yes"), WhaleTrade(9, "buy", 4000, 30, "No"),
       WhaleTrade(10, "buy", 4000, 40, "Yes")>>}

\* where the decision time of a market comes from in a backtest
Timings == {"prices", "endDate", "resolutionDate", "none"}

\* resolved and closed, resolved and still active, open, open and inactive
Statuses == {"resolved", "settling", "open", "paused"}

PoolMarket(i, timing, status, liquidity, prices, trades) ==
    [marketId |-> i, question |-> "q", outcomes |-> i,
     historicalPrices |-> prices, trades |-> trades,
     endDate |-> CASE timing = "prices" -> 11
                   [] timing = "endDate" -> 10
                   [] OTHER -> NullDate,
     resolutionDate |-> CASE timing \in {"prices", "endDate"} -> 12
                          [] timing = "resolutionDate" -> 10
                          [] OTHER -> NullDate,
     resolvedOutcome |-> CASE status = "resolved" -> "Yes"
                           [] status = "settling" -> "No"
                           [] OTHER -> NullOutcome,
     active |-> status \in {"settling", "open"},
     volume |-> 1000 * i, liquidity |-> liquidity]

WhaleMarkets(i) ==
    {PoolMarket(i, tm, st, lq,
                IF tm = "prices" THEN <<PricePoint(10, 50)>> ELSE <<>>, tr) :
       tm \in Timings, st \in Statuses, lq \in {40000, 50000},
       tr \in WhaleTradeHistories}

WhalePairMarkets(i) ==
    {PoolMarket(i, "prices", st, 50000, <<PricePoint(10, 50)>>, tr) :
       st \in Statuses, tr \in WhaleTradeHistories}

\* price points one hour apart
HourlyPrices(start, prices) ==
    [i \in 1..Len(prices) |-> PricePoint(start + i - 1, prices[i])]

Repeat(x, n) == [i \in 1..n |-> x]

\* the history the data route generates: at every hour the price of
\* outcomes[0] and then the complementary price of outcomes[1]
InterleavedPrices(start, prices) ==
    Flatten([i \in 1..Len(prices) |->
               <<PricePoint(start + i - 1, prices[i]),
                 [PricePoint(start + i - 1, 100 - prices[i]) EXCEPT !.outcome = "No"]>>])

\* too short, up, down, calm, at the floor, stale, up in unsorted order, a day
\* of hourly points, and two outcomes interleaved
SpikeHistories ==
    {HourlyPrices(32, Repeat(50, 8) \o <<60>>),
     HourlyPrices(31, Repeat(50, 9) \o <<60>>),
     HourlyPrices(31, Repeat(50, 9) \o <<40>>),
     HourlyPrices(31, Repeat(50, 9) \o <<52>>),
     HourlyPrices(31, Repeat(1, 9) \o <<3>>),
     HourlyPrices(1, Repeat(50, 6)) \o HourlyPrices(37, <<50, 50, 50, 60>>),
     <<PricePoint(40, 60)>> \o HourlyPrices(31, Repeat(50, 9)),
     HourlyPrices(17, Repeat(50, 23) \o <<60>>),
     InterleavedPrices(36, <<50, 50, 50, 50, 60>>)}

SpikeMarkets(i) ==
    {PoolMarket(i, "prices", st, 60000, h, <<>>) :
       st \in Statuses, h \in SpikeHistories}

SpikePairMarkets(i) ==
    {PoolMarket(i, "prices", "resolved", 60000, h, <<>>) : h \in SpikeHistories}

\* none, one point, wide, narrow, in between, at the floor, at the cap,
\* unsorted, and two outcomes interleaved
MarketMakingHistories ==
    {<<>>,
     InterleavedPrices(10, <<60>>),
     <<PricePoint(10, 50)>>,
     <<PricePoint(9, 40), PricePoint(10, 60)>>,
     <<PricePoint(9, 59), PricePoint(10, 60)>>,
     HourlyPrices(7, <<56, 60, 60, 60>>),
     <<PricePoint(10, 1)>>,
     <<PricePoint(10, 99)>>,
     <<PricePoint(10, 60), PricePoint(9, 40)>>}

MarketMakingMarkets(i) ==
    {PoolMarket(i, "prices", st, lq, h, <<>>) :
       st \in Statuses, lq \in {25000, 30000}, h \in MarketMakingHistories}

MarketMakingPairMarkets(i) ==
    {PoolMarket(i, "prices", st, 30000, h, <<>>) :
       st \in {"resolved", "settling"}, h \in MarketMakingHistories}

\* a strategy generateBets may be called without a context
LiveContexts == {<<>>, <<[mode |-> "live"]>>}

----------------------------------------------------------------------------
(* State machine *)

InitEngine ==
    /\ pc = "idle"
    /\ trainingMarkets = <<>>
    /\ testMarkets = <<>>
    /\ preparedTestMarkets = <<>>
    /\ backtestContext = <<>>
    /\ proposedBets = <<>>
    /\ returned = <<>>
    /\ thrown = ""
    /\ marketsAtCall = <<>>

\* useStore initial state
InitStore ==
    /\ storeMarkets = <<>>
    /\ historicalStats = <<>>
    /\ backtestResults = <<>>
    /\ benchmarks = <<>>
    /\ isLoading = FALSE
    /\ error = ""

\* no request to the data route is in progress
InitRouteIdle ==
    /\ rawMarket = <<>>
    /\ routePc = "idle"
    /\ processed = <<>>

\* useStore initial state of simulation and strategies; the Start button is up
InitSimulation ==
    /\ simPc = "idle"
    /\ simulation = [isRunning |-> FALSE, currentEpoch |-> 0, totalEpochs |-> 10,
                     progress |-> 0, logs |-> <<>>]
    /\ strategies = defaultStrategies
    /\ controlsIsRunning = FALSE
    /\ epoch = 0
    /\ epochResults = {}

\* pools that vary size, endDate and resolution under any ratio
InitSplit ==
    \E n \in 0..MaxMarkets :
      \E e \in [1..n -> Dates], r \in [1..n -> {NullOutcome, "Yes"}] :
        /\ markets = [i \in 1..n |-> Market(i, e[i], r[i], <<>>, <<>>)]
        /\ trainingRatio \in Ratios
        /\ strategy = Strategy(FALSE, "none", <<>>)
        /\ caller = "direct"

\* resolved pools that vary the price and trade histories; every market is tested
InitHistories ==
    \E n \in 1..MaxMarkets :
      \E h \in [1..n -> PriceHistories], t \in [1..n -> TradeHistories] :
        /\ markets = [i \in 1..n |-> Market(i, i, "Yes", h[i], t[i])]
        /\ trainingRatio = <<0, 1>>
        /\ strategy \in {Strategy(FALSE, w, <<>>) : w \in WriteKinds}
        /\ caller = "direct"

\* strategies that return any list of bets
InitBets ==
    \E r \in [BetPool -> ResolvedOutcomes] :
      \E k \in 0..MaxBets :
        \E id \in [1..k -> BetMarketIds], o \in [1..k -> {"yes", "No"}],
           sd \in [1..k -> {"buy", "sell"}], first \in BetTerms :
          /\ markets = [i \in BetPool |-> Market(i, i, r[i], <<>>, <<>>)]
          /\ trainingRatio = <<1, 2>>
          /\ strategy = Strategy(FALSE, "none",
                 [i \in 1..k |-> Bet(id[i], o[i], sd[i], TermsAt(first, i))])
          /\ caller = "direct"

\* the page: loadData calls runBacktests with the default ratio
InitPage ==
    \E n \in 0..MaxMarkets :
      \E r \in [1..n -> ResolvedOutcomes] :
        /\ markets = [i \in 1..n |-> Market(i, i, r[i], <<>>, <<>>)]
        /\ trainingRatio = DefaultTrainingRatio
        /\ strategy \in BasicStrategies
        /\ caller = "page"

\* copyTradingStrategy, as exported and after the improvement loop rewrote
\* its parameters, on pools of whale trades
InitWhale ==
    /\ markets \in {<<m>> : m \in WhaleMarkets(1)}
                   \cup {<<a, b>> : a \in WhalePairMarkets(1),
                                    b \in WhalePairMarkets(2)}
    /\ trainingRatio = <<0, 1>>
    /\ strategy \in {copyTradingStrategy,
                      ImprovedStrategy(copyTradingStrategy, [betSize |-> 200]),
                      ImprovedStrategy(copyTradingStrategy,
                                       [minWhaleVolume |-> 6000])}
    /\ caller = "direct"
    /\ now = 12

\* spikeDetectionStrategy on pools of price histories
InitSpike ==
    /\ markets \in {<<m>> : m \in SpikeMarkets(1)}
                   \cup {<<a, b>> : a \in SpikePairMarkets(1),
                                    b \in SpikePairMarkets(2)}
    /\ trainingRatio = <<0, 1>>
    /\ strategy \in {spikeDetectionStrategy,
                      ImprovedStrategy(spikeDetectionStrategy,
                                       [spikeThreshold |-> 1])}
    /\ caller = "direct"
    /\ now = 40

\* marketMakingStrategy on pools of price histories
InitMarketMaking ==
    /\ markets \in {<<m>> : m \in MarketMakingMarkets(1)}
                   \cup {<<a, b>> : a \in MarketMakingPairMarkets(1),
                                    b \in MarketMakingPairMarkets(2)}
    /\ trainingRatio = <<0, 1>>
    /\ strategy \in {marketMakingStrategy,
                      ImprovedStrategy(marketMakingStrategy,
                                       [minLiquidity |-> 20000])}
    /\ caller = "direct"
    /\ now = 12

Init ==
    /\ InitEngine
    /\ InitStore
    /\ InitRouteIdle
    /\ InitSimulation
    /\ pagePc = "mount"
    /\ liveBets = <<>>
    /\ previousReturned = <<>>
    /\ \/ (InitSplit \/ InitHistories \/ InitBets \/ InitPage) /\ now = MaxDate
       \/ InitWhale
       \/ InitSpike
       \/ InitMarketMaking
    /\ outcomesHeap = [i \in 1..Len(markets) |-> InitialOutcomes]

\* backtest up to the call of strategy.generateBets
BacktestBegin ==
    /\ pc = "idle"
    /\ caller = "direct" \/ pagePc = "runBacktests"
    /\ testMarkets' = TestMarkets(markets, trainingRatio)
    /\ trainingMarkets' = TrainingMarkets(markets, trainingRatio)
    /\ preparedTestMarkets' =
         [i \in 1..Len(testMarkets') |-> PrepareMarketSnapshot(markets[testMarkets'[i]])]
    /\ backtestContext' = <<[mode |-> "backtest",
                             trainingMarkets |-> trainingMarkets',
                             evaluationMarkets |-> testMarkets']>>
    /\ marketsAtCall' = Deref(markets, outcomesHeap)
    /\ pc' = "generating"
    /\ UNCHANGED <<proposedBets, returned, thrown, outcomesHeap, pagePc>>
    /\ UNCHANGED <<inputVars, storeVars, callVars, routeVars, simVars>>

\* what a strategy that writes to the markets it was given leaves behind
WrittenSnapshot(snapshot, writes) ==
    CASE writes = "fields" ->
           [snapshot EXCEPT !.resolvedOutcome = "Yes", !.active = FALSE,
                            !.endDate = NullDate]
      [] writes = "arrays" ->
           [snapshot EXCEPT !.historicalPrices = <<>>, !.trades = <<>>]
      [] OTHER -> snapshot

\* snapshot.outcomes[0] = "Tampered" goes to the array the reference names
WrittenHeap(heap, snapshots, writes) ==
    IF writes = "outcomes"
    THEN [ref \in DOMAIN heap |->
            IF \E i \in 1..Len(snapshots) : snapshots[i].outcomes = ref
            THEN [heap[ref] EXCEPT ![1] = "Tampered"]
            ELSE heap[ref]]
    ELSE heap

\* strategy.generateBets(preparedTestMarkets, backtestContext) returns
GenerateBets ==
    /\ pc = "generating"
    /\ ~strategy.throws
    /\ preparedTestMarkets' =
         [i \in 1..Len(preparedTestMarkets) |->
            WrittenSnapshot(preparedTestMarkets[i], strategy.writes)]
    /\ outcomesHeap' = WrittenHeap(outcomesHeap, preparedTestMarkets, strategy.writes)
    /\ proposedBets' = StrategyGenerateBets(strategy, preparedTestMarkets,
                                            outcomesHeap, backtestContext, now)
    /\ pc' = "simulating"
    /\ UNCHANGED <<trainingMarkets, testMarkets, backtestContext, returned, thrown,
                   marketsAtCall, pagePc>>
    /\ UNCHANGED <<inputVars, storeVars, callVars, routeVars, simVars>>

\* GenerateBetsThrows with a handler in backtest that goes on with no bets
GenerateBetsSwallowed ==
    /\ pc = "generating"
    /\ strategy.throws
    /\ proposedBets' = <<>>
    /\ pc' = "simulating"
    /\ UNCHANGED <<trainingMarkets, testMarkets, preparedTestMarkets, backtestContext,
                   thrown, returned, marketsAtCall, outcomesHeap, pagePc>>
    /\ UNCHANGED <<inputVars, storeVars, callVars, routeVars, simVars>>

\* strategy.generateBets throws: backtest has no handler, the error leaves it
GenerateBetsThrows ==
    /\ pc = "generating"
    /\ strategy.throws
    /\ thrown' = "StrategyError"
    /\ pc' = "thrown"
    /\ UNCHANGED <<trainingMarkets, testMarkets, preparedTestMarkets, backtestContext,
                   proposedBets, returned, marketsAtCall, outcomesHeap, pagePc>>
    /\ UNCHANGED <<inputVars, storeVars, callVars, routeVars, simVars>>

\* backtest from proposedBets.forEach to its return
BacktestSimulate ==
    /\ pc = "simulating"
    /\ returned' = <<BacktestResult(strategy, markets, testMarkets, proposedBets)>>
    /\ pc' = "returned"
    /\ UNCHANGED <<trainingMarkets, testMarkets, preparedTestMarkets, backtestContext,
                   proposedBets, thrown, marketsAtCall, outcomesHeap, pagePc>>
    /\ UNCHANGED <<inputVars, storeVars, callVars, routeVars, simVars>>

\* an exported strategy's generateBets called on the pool in live mode
GenerateBetsLive ==
    /\ pc = "idle"
    /\ caller = "direct"
    /\ strategy.type \in ReferenceTypes
    /\ liveBets = <<>>
    /\ previousReturned = <<>>
    /\ \E context \in LiveContexts :
         liveBets' = <<StrategyGenerateBets(strategy, markets, outcomesHeap,
                                            context, now)>>
    /\ markets' = [i \in 1..Len(markets) |->
                     WrittenSnapshot(markets[i], strategy.writes)]
    /\ outcomesHeap' = WrittenHeap(outcomesHeap, markets, strategy.writes)
    /\ UNCHANGED <<caller, strategy, trainingRatio, pagePc, now, previousReturned>>
    /\ UNCHANGED <<engineVars, storeVars, routeVars, simVars>>

\* the caller keeps the result and calls backtest again with the same
\* strategy and markets; the clock may have moved on
BacktestAgain ==
    /\ pc = "returned"
    /\ caller = "direct"
    /\ strategy.type \in ReferenceTypes
    /\ previousReturned = <<>>
    /\ previousReturned' = returned
    /\ now' \in {now, now + 1}
    /\ pc' = "idle"
    /\ trainingMarkets' = <<>>
    /\ testMarkets' = <<>>
    /\ preparedTestMarkets' = <<>>
    /\ backtestContext' = <<>>
    /\ proposedBets' = <<>>
    /\ returned' = <<>>
    /\ marketsAtCall' = <<>>
    /\ UNCHANGED <<thrown, outcomesHeap, pagePc, liveBets>>
    /\ UNCHANGED <<inputVars, storeVars, routeVars, simVars>>

----------------------------------------------------------------------------
(* page.tsx: loadData and runBacktests *)

\* loadData up to its first await
LoadDataStart ==
    /\ caller = "page"
    /\ pagePc = "mount"
    /\ isLoading' = TRUE
    /\ error' = ""
    /\ pagePc' = "fetching"
    /\ UNCHANGED <<storeMarkets, historicalStats, backtestResults, benchmarks,
                   outcomesHeap>>
    /\ UNCHANGED <<inputVars, engineVars, callVars, routeVars, simVars>>

\* an axios.get rejects: catch sets the error, finally clears isLoading
LoadDataFetchFails ==
    /\ pagePc = "fetching"
    /\ error' = "Network Error - Check console for details"
    /\ isLoading' = FALSE
    /\ pagePc' = "done"
    /\ UNCHANGED <<storeMarkets, historicalStats, backtestResults, benchmarks,
                   outcomesHeap>>
    /\ UNCHANGED <<inputVars, engineVars, callVars, routeVars, simVars>>

\* both fetches resolve: setMarkets, setHistoricalStats, then runBacktests is called
LoadDataFetched ==
    /\ pagePc = "fetching"
    /\ storeMarkets' = markets
    /\ historicalStats' = <<CalculateHistoricalStats(markets)>>
    /\ pagePc' = "runBacktests"
    /\ UNCHANGED <<backtestResults, benchmarks, isLoading, error, outcomesHeap>>
    /\ UNCHANGED <<inputVars, engineVars, callVars, routeVars, simVars>>

Benchmark(result) ==
    [strategyId |-> result.strategyId, strategyName |-> result.strategyName,
     epoch |-> 0, winRate |-> result.winRate, roi |-> result.roi,
     netProfit |-> result.netProfit, totalBets |-> result.totalBets,
     improvementPercent |-> 0]

\* every backtest returned: runBacktests publishes, loadData's finally runs
RunBacktestsReturns ==
    /\ pagePc = "runBacktests"
    /\ pc = "returned"
    /\ backtestResults' = returned
    /\ benchmarks' = [i \in 1..Len(returned) |-> Benchmark(returned[i])]
    /\ isLoading' = FALSE
    /\ pagePc' = "done"
    /\ UNCHANGED <<storeMarkets, historicalStats, error, outcomesHeap>>
    /\ UNCHANGED <<inputVars, engineVars, callVars, routeVars, simVars>>

\* a backtest threw: runBacktests' catch logs it, loadData's finally runs
RunBacktestsCatches ==
    /\ pagePc = "runBacktests"
    /\ pc = "thrown"
    /\ isLoading' = FALSE
    /\ pagePc' = "done"
    /\ UNCHANGED <<storeMarkets, historicalStats, backtestResults, benchmarks,
                   error, outcomesHeap>>
    /\ UNCHANGED <<inputVars, engineVars, callVars, routeVars, simVars>>

Next ==
    \/ BacktestBegin
    \/ GenerateBets
    \/ GenerateBetsThrows
    \/ BacktestSimulate
    \/ GenerateBetsLive
    \/ BacktestAgain
    \/ LoadDataStart
    \/ LoadDataFetchFails
    \/ LoadDataFetched
    \/ RunBacktestsReturns
    \/ RunBacktestsCatches

Spec == Init /\ [][Next]_vars

----------------------------------------------------------------------------
(* api/data/route.ts: volume, liquidity, historicalPrices and trades of one
   market of the loop over rawMarkets.  Source volume and liquidity are in
   dollars, the processed ones in cents, as amount * price is. *)

\* the synthetic trades of one market, 1250 in the source
numTrades == 2

\* Array.prototype.sort((a, b) => a.timestamp - b.timestamp)
SortByTimestamp(s) == OrderBy(s, Timestamps(s))

\* pricePointsArray.flat().sort(...), tradesArray.flat().sort(...)
FlattenPricePoints(pricesArray) == SortByTimestamp(Flatten(pricesArray))
FlattenTrades(tradesArray) == SortByTimestamp(Flatten(tradesArray))

CalculateVolumeFromTrades(trades) ==
    SeqSum([i \in 1..Len(trades) |-> trades[i].amount * trades[i].price])

EstimateLiquidityFromTrades(trades) ==
    IF Len(trades) = 0 THEN 0
    ELSE CalculateVolumeFromTrades(Slice(trades, -10, Len(trades)))

\* Math.random() * 250000 + 50000, in cents: the ends and the middle
RandomLiquidity == {5000000, 17500000, 29999900}

\* what buildMarketHistoricalData resolves to, one array per outcome
SubgraphTrades ==
    {<<>>,
     <<<<WhaleTrade(2, "buy", 1000, 60, "Yes")>>,
       <<WhaleTrade(1, "sell", 500, 40, "No")>>>>,
     <<[i \in 1..11 |-> WhaleTrade(i, "buy", 100 * i, 60, "Yes")], <<>>>>}

SubgraphPrices ==
    {<<>>, <<<<PricePoint(1, 60)>>, <<[PricePoint(1, 40) EXCEPT !.outcome = "No"]>>>>}

\* the raw market of the Gamma API with the request's useSubgraph (false when
\* the market has no conditionId) and the subgraph's reply
RawMarkets ==
    [volume : {0, 1200}, liquidity : {0, 40000, 80000},
     useSubgraph : BOOLEAN, subgraphFails : BOOLEAN,
     pricesArray : SubgraphPrices, tradesArray : SubgraphTrades]

\* one synthetic trade: a regular or a whale amount around the reference price
SyntheticTrades(referencePrice) ==
    {WhaleTrade(1, "buy", a, ClampPrice(referencePrice + d), "Yes") :
       a \in {50, 10000}, d \in {-1, 1}}

InitRoute ==
    /\ InitEngine
    /\ InitStore
    /\ InitSimulation
    /\ pagePc = "mount"
    /\ liveBets = <<>>
    /\ previousReturned = <<>>
    /\ caller = "page"
    /\ strategy = Strategy(FALSE, "none", <<>>)
    /\ markets = <<>>
    /\ outcomesHeap = <<>>
    /\ trainingRatio = DefaultTrainingRatio
    /\ now = numTrades
    /\ rawMarket \in {<<m>> : m \in RawMarkets}
    /\ routePc = "parse"
    /\ processed = <<>>

\* parseFloat of the source's volume and liquidity; a liquidity of 0 is
\* replaced by a random one at once
RouteParse ==
    /\ routePc = "parse"
    /\ \E random \in RandomLiquidity :
         processed' = [volume |-> rawMarket[1].volume * 100,
                       liquidity |-> IF rawMarket[1].liquidity = 0 THEN random
                                     ELSE rawMarket[1].liquidity * 100,
                       historicalPrices |-> <<>>,
                       trades |-> <<>>]
    /\ routePc' = "subgraph"
    /\ UNCHANGED <<rawMarket, outcomesHeap, pagePc>>
    /\ UNCHANGED <<inputVars, engineVars, storeVars, callVars, simVars>>

\* the subgraph is not asked, throws, or has nothing for the market
RouteSubgraphSkipped ==
    /\ routePc = "subgraph"
    /\ \/ ~rawMarket[1].useSubgraph
       \/ rawMarket[1].subgraphFails
       \/ Len(rawMarket[1].pricesArray) = 0 /\ Len(rawMarket[1].tradesArray) = 0
    /\ routePc' = "synthetic"
    /\ UNCHANGED <<rawMarket, processed, outcomesHeap, pagePc>>
    /\ UNCHANGED <<inputVars, engineVars, storeVars, callVars, simVars>>

\* the subgraph's reply is flattened; volume and liquidity are derived from
\* its trades when they are still 0
RouteSubgraphData ==
    /\ routePc = "subgraph"
    /\ rawMarket[1].useSubgraph
    /\ ~rawMarket[1].subgraphFails
    /\ Len(rawMarket[1].pricesArray) > 0 \/ Len(rawMarket[1].tradesArray) > 0
    /\ LET trades == FlattenTrades(rawMarket[1].tradesArray)
           estimate == EstimateLiquidityFromTrades(trades)
       IN \E random \in RandomLiquidity :
            processed' =
              [volume |-> IF processed.volume = 0 /\ Len(trades) > 0
                          THEN CalculateVolumeFromTrades(trades)
                          ELSE processed.volume,
               liquidity |-> IF processed.liquidity = 0 /\ Len(trades) > 0
                             THEN (IF estimate < 5000000 THEN random ELSE estimate)
                             ELSE processed.liquidity,
               historicalPrices |-> FlattenPricePoints(rawMarket[1].pricesArray),
               trades |-> trades]
    /\ routePc' = "synthetic"
    /\ UNCHANGED <<rawMarket, outcomesHeap, pagePc>>
    /\ UNCHANGED <<inputVars, engineVars, storeVars, callVars, simVars>>

\* prices or trades are missing: both are replaced by synthetic ones, the
\* newest trade first, and a volume of 0 becomes the sum of the amounts
RouteSynthetic ==
    /\ routePc = "synthetic"
    /\ Len(processed.historicalPrices) = 0 \/ Len(processed.trades) = 0
    /\ LET historicalPrices == InterleavedPrices(1, <<50, 55>>)
       IN \E trades \in [1..numTrades -> SyntheticTrades(historicalPrices[1].price)] :
            LET synthetic == [i \in 1..numTrades |->
                                [trades[i] EXCEPT !.timestamp = now - (i - 1)]]
                totalVolume == SeqSum([i \in 1..numTrades |-> synthetic[i].amount])
            IN processed' =
                 [processed EXCEPT
                    !.historicalPrices = historicalPrices,
                    !.trades = synthetic,
                    !.volume = IF processed.volume = 0 THEN totalVolume * 100
                               ELSE processed.volume]
    /\ routePc' = "pushed"
    /\ UNCHANGED <<rawMarket, outcomesHeap, pagePc>>
    /\ UNCHANGED <<inputVars, engineVars, storeVars, callVars, simVars>>

\* the subgraph gave prices and trades: the market is pushed with them
RoutePush ==
    /\ routePc = "synthetic"
    /\ Len(processed.historicalPrices) > 0
    /\ Len(processed.trades) > 0
    /\ routePc' = "pushed"
    /\ UNCHANGED <<rawMarket, processed, outcomesHeap, pagePc>>
    /\ UNCHANGED <<inputVars, engineVars, storeVars, callVars, simVars>>

NextRoute ==
    \/ RouteParse
    \/ RouteSubgraphSkipped
    \/ RouteSubgraphData
    \/ RouteSynthetic
    \/ RoutePush

SpecRoute == InitRoute /\ [][NextRoute]_vars

----------------------------------------------------------------------------
(* SimulationControls.handleStart and page.tsx startSimulation.  The log keeps
   the lines of the catch block, each with the epoch whose header precedes
   it. *)

MaxEpochs == 3
MaxStrategies == 2

\* BacktestEngine.backtest(strat, ms, ratio) of a strategy whose generateBets
\* returns
Backtest(strat, ms, ratio, heap, clock) ==
    LET test == TestMarkets(ms, ratio)
        prepared == [i \in 1..Len(test) |-> PrepareMarketSnapshot(ms[test[i]])]
        context == <<[mode |-> "backtest",
                      trainingMarkets |-> TrainingMarkets(ms, ratio),
                      evaluationMarkets |-> test]>>
    IN BacktestResult(strat, ms, test,
                      StrategyGenerateBets(strat, prepared, heap, context, clock))

\* a.roi - b.roi < 0 on results, without leaving 32 bits
RoiLess(a, b) ==
    LET qa == a.roi.n \div a.roi.d
        qb == b.roi.n \div b.roi.d
    IN \/ qa < qb
       \/ qa = qb /\ (a.roi.n % a.roi.d) * b.roi.d < (b.roi.n % b.roi.d) * a.roi.d

\* [...currentResults].sort((a, b) => a.roi - b.roi)[0]: the first result
\* that no other result undercuts
WorstIndex(results) ==
    CHOOSE i \in 1..Len(results) :
      /\ \A j \in 1..Len(results) : ~RoiLess(results[j], results[i])
      /\ \A j \in 1..(i - 1) : RoiLess(results[i], results[j])

\* Math.round((epoch / epochs) * 100)
Progress(e, total) == (200 * e + total) \div (2 * total)

\* what generateBetsCode can be: absent, source that new Function rejects,
\* source that compiles into a function that throws when it is called
LlmCode == {"", "invalid", "throws"}

\* the body of an improve_strategy reply
Improvements == [improvedParameters : {[betSize |-> 200]}, generateBetsCode : LlmCode]

\* the strategy the improvement step puts in place of s
AppliedImprovement(s, improvements) ==
    [ImprovedStrategy(s, improvements.improvedParameters) EXCEPT
       !.throws = IF improvements.generateBetsCode = "throws" THEN TRUE ELSE @]

\* `ai_${Date.now()}`: a new id at every generation
AiId(n) == "ai_" \o ToString(n)

\* the strategy built from a generate_strategy reply; without code that
\* compiles it keeps the placeholder that returns no bets
AiStrategy(n, generateBetsCode) ==
    [Strategy(generateBetsCode = "throws", "none", <<>>) EXCEPT
       !.id = AiId(n), !.name = "AI"]

\* the pools the store can hold when the simulation is started
SimulationPools ==
    {<<>>} \cup {<<m>> : m \in WhalePairMarkets(1)}

\* the page after loadData: markets and strategies in the store, Start enabled
InitSim ==
    /\ InitEngine
    /\ InitRouteIdle
    /\ InitSimulation
    /\ pagePc = "done"
    /\ liveBets = <<>>
    /\ previousReturned = <<>>
    /\ caller = "page"
    /\ strategy = copyTradingStrategy
    /\ markets \in SimulationPools
    /\ outcomesHeap = [i \in 1..Len(markets) |-> InitialOutcomes]
    /\ trainingRatio = DefaultTrainingRatio
    /\ now = 12
    /\ storeMarkets = markets
    /\ historicalStats = <<CalculateHistoricalStats(markets)>>
    /\ backtestResults = [i \in 1..Len(defaultStrategies) |->
                            Backtest(defaultStrategies[i], markets,
                                     DefaultTrainingRatio, outcomesHeap, now)]
    /\ benchmarks = [i \in 1..Len(backtestResults) |-> Benchmark(backtestResults[i])]
    /\ isLoading = FALSE
    /\ error = ""

\* the Start button: handleStart sets its flag and calls startSimulation,
\* which runs up to the loop
HandleStart ==
    /\ simPc = "idle"
    /\ ~controlsIsRunning
    /\ ~simulation.isRunning
    /\ Len(strategies) < MaxStrategies
    /\ \E epochs \in 1..MaxEpochs :
         simulation' = [isRunning |-> TRUE, currentEpoch |-> 0,
                        totalEpochs |-> epochs, progress |-> 0, logs |-> <<>>]
    /\ controlsIsRunning' = TRUE
    /\ epoch' = 1
    /\ epochResults' = {}
    /\ simPc' = "loop"
    /\ UNCHANGED <<strategies, outcomesHeap, pagePc>>
    /\ UNCHANGED <<inputVars, engineVars, storeVars, callVars, routeVars>>

\* the head of the loop body: setSimulation({currentEpoch, progress, logs})
EpochBegin ==
    /\ simPc = "loop"
    /\ epoch <= simulation.totalEpochs
    /\ simulation' = [simulation EXCEPT
                        !.currentEpoch = epoch,
                        !.progress = Progress(epoch, simulation.totalEpochs)]
    /\ simPc' = "backtests"
    /\ UNCHANGED <<strategies, controlsIsRunning, epoch, epochResults,
                   outcomesHeap, pagePc>>
    /\ UNCHANGED <<inputVars, engineVars, storeVars, callVars, routeVars>>

\* every backtest of the pool returns: the results are published and stored
EpochBacktests ==
    /\ simPc = "backtests"
    /\ \A i \in 1..Len(strategies) : ~strategies[i].throws
    /\ backtestResults' = [i \in 1..Len(strategies) |->
                             Backtest(strategies[i], markets, DefaultTrainingRatio,
                                      outcomesHeap, now)]
    /\ epochResults' = epochResults \cup {epoch}
    /\ simPc' = "improve"
    /\ UNCHANGED <<simulation, strategies, controlsIsRunning, epoch,
                   outcomesHeap, pagePc>>
    /\ UNCHANGED <<storeMarkets, historicalStats, benchmarks, isLoading, error>>
    /\ UNCHANGED <<inputVars, engineVars, callVars, routeVars>>

\* a generateBets of the pool throws: the error leaves backtest, the map and
\* startSimulation, whose promise rejects; handleStart stops at its await
EpochBacktestThrows ==
    /\ simPc = "backtests"
    /\ \E i \in 1..Len(strategies) : strategies[i].throws
    /\ simPc' = "rejected"
    /\ UNCHANGED <<simulation, strategies, controlsIsRunning, epoch,
                   epochResults, outcomesHeap, pagePc>>
    /\ UNCHANGED <<inputVars, engineVars, storeVars, callVars, routeVars>>

\* the worst result has a roi of 50 or more: no improve_strategy request
ImproveNotNeeded ==
    /\ simPc = "improve"
    /\ backtestResults[WorstIndex(backtestResults)].roi.n
         >= 50 * backtestResults[WorstIndex(backtestResults)].roi.d
    /\ simPc' = "generate"
    /\ UNCHANGED <<simulation, strategies, controlsIsRunning, epoch,
                   epochResults, outcomesHeap, pagePc>>
    /\ UNCHANGED <<inputVars, engineVars, storeVars, callVars, routeVars>>

\* the catch block of the epoch: the error is logged, the loop goes on
EpochCatch ==
    /\ simulation' = [simulation EXCEPT
                        !.logs = Append(@, [epoch |-> epoch, line |-> "Error"])]
    /\ epoch' = epoch + 1
    /\ simPc' = "loop"
    /\ UNCHANGED <<strategies, controlsIsRunning, epochResults, outcomesHeap, pagePc>>
    /\ UNCHANGED <<inputVars, engineVars, storeVars, callVars, routeVars>>

\* the improve_strategy request rejects
ImproveRequestFails ==
    /\ simPc = "improve"
    /\ backtestResults[WorstIndex(backtestResults)].roi.n
         < 50 * backtestResults[WorstIndex(backtestResults)].roi.d
    /\ EpochCatch

\* the improve_strategy request resolves: every strategy with the id of the
\* worst result is replaced by its improved copy
ImproveApplied ==
    /\ simPc = "improve"
    /\ backtestResults[WorstIndex(backtestResults)].roi.n
         < 50 * backtestResults[WorstIndex(backtestResults)].roi.d
    /\ \E improvements \in Improvements :
         strategies' =
           [i \in 1..Len(strategies) |->
              IF strategies[i].id =
                   backtestResults[WorstIndex(backtestResults)].strategyId
              THEN AppliedImprovement(strategies[i], improvements)
              ELSE strategies[i]]
    /\ simPc' = "generate"
    /\ UNCHANGED <<simulation, controlsIsRunning, epoch, epochResults,
                   outcomesHeap, pagePc>>
    /\ UNCHANGED <<inputVars, engineVars, storeVars, callVars, routeVars>>

\* an odd epoch that is not the last: no generate_strategy request
GenerateNotDue ==
    /\ simPc = "generate"
    /\ ~(epoch % 2 = 0 \/ epoch = simulation.totalEpochs)
    /\ simPc' = "delay"
    /\ UNCHANGED <<simulation, strategies, controlsIsRunning, epoch,
                   epochResults, outcomesHeap, pagePc>>
    /\ UNCHANGED <<inputVars, engineVars, storeVars, callVars, routeVars>>

\* the generate_strategy request rejects
GenerateRequestFails ==
    /\ simPc = "generate"
    /\ epoch % 2 = 0 \/ epoch = simulation.totalEpochs
    /\ EpochCatch

\* the generate_strategy request resolves: the new strategy joins the pool
GenerateAdded ==
    /\ simPc = "generate"
    /\ epoch % 2 = 0 \/ epoch = simulation.totalEpochs
    /\ \E generateBetsCode \in LlmCode :
         strategies' = Append(strategies,
                              AiStrategy(Len(strategies), generateBetsCode))
    /\ simPc' = "delay"
    /\ UNCHANGED <<simulation, controlsIsRunning, epoch, epochResults,
                   outcomesHeap, pagePc>>
    /\ UNCHANGED <<inputVars, engineVars, storeVars, callVars, routeVars>>

\* the two seconds of the epoch's delay pass
EpochDelay ==
    /\ simPc = "delay"
    /\ epoch' = epoch + 1
    /\ simPc' = "loop"
    /\ UNCHANGED <<simulation, strategies, controlsIsRunning, epochResults,
                   outcomesHeap, pagePc>>
    /\ UNCHANGED <<inputVars, engineVars, storeVars, callVars, routeVars>>

\* the loop is over: setSimulation({isRunning: false, logs}), the promise resolves
SimulationComplete ==
    /\ simPc = "loop"
    /\ epoch > simulation.totalEpochs
    /\ simulation' = [simulation EXCEPT !.isRunning = FALSE]
    /\ simPc' = "resolved"
    /\ UNCHANGED <<strategies, controlsIsRunning, epoch, epochResults,
                   outcomesHeap, pagePc>>
    /\ UNCHANGED <<inputVars, engineVars, storeVars, callVars, routeVars>>

\* handleStart after its await: setIsRunning(false)
HandleStartResumes ==
    /\ simPc = "resolved"
    /\ controlsIsRunning' = FALSE
    /\ simPc' = "idle"
    /\ UNCHANGED <<simulation, strategies, epoch, epochResults, outcomesHeap, pagePc>>
    /\ UNCHANGED <<inputVars, engineVars, storeVars, callVars, routeVars>>

\* every step but the click on Start
SimulationSteps ==
    \/ EpochBegin
    \/ EpochBacktests
    \/ EpochBacktestThrows
    \/ ImproveNotNeeded
    \/ ImproveRequestFails
    \/ ImproveApplied
    \/ GenerateNotDue
    \/ GenerateRequestFails
    \/ GenerateAdded
    \/ EpochDelay
    \/ SimulationComplete
    \/ HandleStartResumes

NextSim ==
    \/ HandleStart
    \/ SimulationSteps

\* the event loop runs every continuation that is ready, and every request
\* and timer settles
SpecSim == InitSim /\ [][NextSim]_vars /\ WF_vars(SimulationSteps)

----------------------------------------------------------------------------
(* Vocabulary of the properties *)

Result == returned[1]

\* the caller's market that carries marketId id (ids are unique in a pool)
MarketById(id) == markets[CHOOSE i \in 1..Len(markets) : markets[i].marketId = id]

TestIds == {markets[testMarkets[i]].marketId : i \in 1..Len(testMarkets)}
TrainingIds == {markets[trainingMarkets[i]].marketId : i \in 1..Len(trainingMarkets)}

\* labels that differ only in letter case
LabelClasses == {{"Yes", "YES", "yes"}, {"No", "NO", "no"}}
SameLabel(a, b) == a = b \/ \E c \in LabelClasses : a \in c /\ b \in c

Occurrences(s, x) == Cardinality({i \in 1..Len(s) : s[i] = x})
SameElements(s, t) ==
    /\ Len(s) = Len(t)
    /\ \A x \in Range(s) \cup Range(t) : Occurrences(s, x) = Occurrences(t, x)
AscendingByTimestamp(s) ==
    \A i, j \in 1..Len(s) : i < j => s[i].timestamp <= s[j].timestamp

\* endDate order with null after every date
EndDateLeq(a, b) == b = NullDate \/ (a # NullDate /\ a <= b)

----------------------------------------------------------------------------
(* Properties *)

\* C1: every scored bet is a win exactly when it is a buy whose outcome equals
\* the resolvedOutcome of its market up to letter case, or a sell whose outcome
\* differs from it; amount, priceLimit and timestamp play no part.
C1_SettlementRule ==
    pc = "returned" =>
      \A i \in 1..Len(Result.bets) :
        LET b == Result.bets[i]
            same == SameLabel(b.outcome, MarketById(b.marketId).resolvedOutcome)
        IN (b.result = "win") <=> (IF b.side = "buy" THEN same ELSE ~same)

C1_Witness ==
    /\ pc = "returned"
    /\ \E i, j \in 1..Len(Result.bets) :
         /\ Result.bets[i].side = "buy" /\ Result.bets[i].result = "win"
         /\ Result.bets[i].outcome # MarketById(Result.bets[i].marketId).resolvedOutcome
         /\ Result.bets[j].side = "sell" /\ Result.bets[j].result = "win"
         /\ Result.bets[i].amount # Result.bets[j].amount

\* C2: when generateBets is called, neither its markets argument nor the
\* markets reachable through its context show a resolvedOutcome of a test market.
C2_NoResolutionExposed ==
    pc = "generating" =>
      /\ \A i \in 1..Len(preparedTestMarkets) :
           preparedTestMarkets[i].resolvedOutcome = NullOutcome
      /\ \A ref \in Range(backtestContext[1].trainingMarkets)
                    \cup Range(backtestContext[1].evaluationMarkets) :
           markets[ref].marketId \in TestIds =>
             markets[ref].resolvedOutcome = NullOutcome

\* C3: the markets handed to generateBets are, position by position, snapshots
\* of the test markets: active, unresolved, with the original's price points
\* and trades in ascending timestamp order.
C3_SnapshotRule ==
    pc = "generating" =>
      /\ Len(preparedTestMarkets) = Len(testMarkets)
      /\ \A i \in 1..Len(preparedTestMarkets) :
           LET snap == preparedTestMarkets[i]
               orig == markets[testMarkets[i]]
           IN /\ snap.marketId = orig.marketId
              /\ snap.active = TRUE
              /\ snap.resolvedOutcome = NullOutcome
              /\ SameElements(snap.historicalPrices, orig.historicalPrices)
              /\ SameElements(snap.trades, orig.trades)
              /\ AscendingByTimestamp(snap.historicalPrices)
              /\ AscendingByTimestamp(snap.trades)

C3_Witness ==
    /\ pc = "generating"
    /\ \E i \in 1..Len(preparedTestMarkets) :
         /\ ~AscendingByTimestamp(markets[testMarkets[i]].historicalPrices)
         /\ ~AscendingByTimestamp(markets[testMarkets[i]].trades)
         /\ markets[testMarkets[i]].active = FALSE

\* C4: when backtest has returned, the caller's markets are as they were when
\* it was called, whatever the strategy wrote to the snapshots it was given.
C4_CallerMarketsUnchanged ==
    pc = "returned" => Deref(markets, outcomesHeap) = marketsAtCall

\* C5: a returned result has wins + losses <= totalBets, totalBets = length of
\* bets, no pending bet, and one scored bet for every proposed bet that names a
\* test market.
C5_NoPendingBets ==
    pc = "returned" =>
      /\ Result.wins + Result.losses <= Result.totalBets
      /\ Result.totalBets = Len(Result.bets)
      /\ \A i \in 1..Len(Result.bets) : Result.bets[i].result \in {"win", "loss"}
      /\ Len(Result.bets) =
           Cardinality({i \in 1..Len(proposedBets) :
                          proposedBets[i].marketId \in TestIds})

C5_Witness ==
    /\ pc = "returned"
    /\ Result.wins >= 1
    /\ Result.losses >= 1

\* the proposed bets that name a test market, in order
BetsOnTestMarkets(bets) ==
    SeqFilterIdx(bets, {i \in 1..Len(bets) : bets[i].marketId \in TestIds}, 1)

\* C6: bets that name no test market (unknown id, unresolved market, training
\* market) leave no trace: backtest returns, without error, the result it
\* returns for the remaining bets alone, and scores only test markets.
C6_UnmatchedBetsDiscarded ==
    pc = "returned" =>
      /\ thrown = ""
      /\ \A i \in 1..Len(Result.bets) : Result.bets[i].marketId \in TestIds
      /\ Len(Result.earningsOverTime) = Len(BetsOnTestMarkets(proposedBets))
      /\ Result = BacktestResult(strategy, markets, testMarkets,
                                 BetsOnTestMarkets(proposedBets))

C6_Witness ==
    /\ pc = "returned"
    /\ Len(proposedBets) = 2
    /\ proposedBets[1].marketId \in TrainingIds
    /\ proposedBets[2].marketId \in TestIds
    /\ Result.totalBets = 1
    /\ \E i \in 1..Len(markets) : markets[i].resolvedOutcome = NullOutcome

ResolvedCount ==
    Cardinality({i \in 1..Len(markets) : markets[i].resolvedOutcome # NullOutcome})

\* floor(n * r) for a ratio r = <<num, den>> with 0 <= r <= 1
FloorOfProduct(n, r) ==
    CHOOSE k \in 0..n : k * r[2] <= n * r[1] /\ n * r[1] < (k + 1) * r[2]

\* C7: of n resolved markets, floor(n * r) are in the training partition and
\* the other n - floor(n * r) in the test partition; the partitions are
\* disjoint and hold every resolved market exactly once.
C7_SplitSizes ==
    pc # "idle" =>
      LET k == FloorOfProduct(ResolvedCount, trainingRatio)
      IN /\ Len(trainingMarkets) = k
         /\ Len(testMarkets) = ResolvedCount - k
         /\ Range(trainingMarkets) \cap Range(testMarkets) = {}
         /\ Range(trainingMarkets) \cup Range(testMarkets) =
              {i \in 1..Len(markets) : markets[i].resolvedOutcome # NullOutcome}
         /\ Cardinality(Range(trainingMarkets)) = Len(trainingMarkets)
         /\ Cardinality(Range(testMarkets)) = Len(testMarkets)

C7_Witness ==
    /\ pc = "generating"
    /\ trainingRatio = DefaultTrainingRatio
    /\ ResolvedCount = 3
    /\ Len(trainingMarkets) = 2
    /\ Len(testMarkets) = 1

\* C8: no training market ends after a test market (a null endDate counts as
\* later than every date), so the markets with null endDate all follow the
\* markets with a date, whatever the order of the input.
C8_NoLookAheadSplit ==
    pc # "idle" =>
      LET order == trainingMarkets \o testMarkets
      IN /\ \A a \in Range(trainingMarkets), b \in Range(testMarkets) :
              EndDateLeq(markets[a].endDate, markets[b].endDate)
         /\ \A i, j \in 1..Len(order) :
              (i < j /\ markets[order[i]].endDate = NullDate)
                => markets[order[j]].endDate = NullDate

C8_Witness ==
    /\ pc = "generating"
    /\ Len(markets) >= 3
    /\ markets[1].endDate = NullDate
    /\ markets[1].resolvedOutcome # NullOutcome
    /\ \E a \in Range(trainingMarkets), b \in Range(testMarkets) :
         /\ a > b
         /\ markets[a].endDate # NullDate
         /\ markets[a].endDate < markets[b].endDate
    /\ 1 \in Range(testMarkets)

\* C9: when generateBets throws, backtest returns no result and the error it
\* threw is the error that leaves backtest.
C9_StrategyErrorPropagates ==
    (strategy.throws /\ pc \notin {"idle", "generating"}) =>
      /\ pc = "thrown"
      /\ returned = <<>>
      /\ thrown = "StrategyError"

C9_Witness ==
    /\ pc = "thrown"
    /\ strategy.throws
    /\ Len(testMarkets) >= 1

\* C10: when loadData has ended and a strategy threw during runBacktests, the
\* store carries the error.
C10_FailureSurfaced ==
    (pagePc = "done" /\ thrown # "") => error # ""

\* C11: a result with no scored bet has winRate 0 and a result whose scored
\* bets cost nothing has roi 0; neither ratio is ever a division by zero.
C11_ZeroGuards ==
    pc = "returned" =>
      /\ Result.totalBets = 0 => Result.winRate = Zero
      /\ Result.totalCost = 0 => Result.roi = Zero
      /\ Result.winRate.d # 0
      /\ Result.roi.d # 0

C11_Witness ==
    /\ pc = "returned"
    /\ Result.totalBets > 0
    /\ Result.totalCost = 0
    /\ Result.netProfit > 0
    /\ Result.roi = Zero

\* the result of a backtest that scored nothing
EmptyResult ==
    [strategyId |-> strategy.id, strategyName |-> strategy.name,
     totalBets |-> 0, wins |-> 0, losses |-> 0, winRate |-> Zero,
     totalCost |-> 0, totalWinnings |-> 0, netProfit |-> 0, roi |-> Zero,
     bets |-> <<>>, earningsOverTime |-> <<>>]

\* C12: on a pool with no resolved market, the empty pool included, backtest
\* of a strategy that does not throw returns the empty result without error,
\* whatever bets the strategy returned.
C12_NoResolvedMarket ==
    (ResolvedCount = 0 /\ ~strategy.throws /\ pc \notin {"idle", "generating"}) =>
      /\ pc \in {"simulating", "returned"}
      /\ thrown = ""
      /\ pc = "returned" => Result = EmptyResult

C12_Witness ==
    /\ pc = "returned"
    /\ ResolvedCount = 0
    /\ Len(markets) > 0
    /\ Len(proposedBets) = 2
    /\ \A i \in 1..2 : \E j \in 1..Len(markets) :
         proposedBets[i].marketId = markets[j].marketId

\* C13: every scored bet costs amount * priceLimit and pays amount when won,
\* nothing when lost; totalCost and totalWinnings are the sums over the scored
\* bets, netProfit their difference, winRate = wins / totalBets * 100 and
\* roi = netProfit / totalCost * 100.
C13_Accounting ==
    pc = "returned" =>
      LET scored == BetsOnTestMarkets(proposedBets)
          n == Len(Result.bets)
      IN /\ n = Len(scored)
         /\ \A i \in 1..n :
              /\ Result.bets[i].cost = scored[i].amount * scored[i].priceLimit
              /\ Result.bets[i].payout =
                   IF Result.bets[i].result = "win" THEN scored[i].amount * 100 ELSE 0
         /\ Result.totalCost = SeqSum([i \in 1..n |-> Result.bets[i].cost])
         /\ Result.totalWinnings = SeqSum([i \in 1..n |-> Result.bets[i].payout])
         /\ Result.netProfit = Result.totalWinnings - Result.totalCost
         /\ Result.wins = Cardinality({i \in 1..n : Result.bets[i].result = "win"})
         /\ Result.totalBets > 0 =>
              Result.winRate = Fraction(Result.wins * 100, Result.totalBets)
         /\ Result.totalCost > 0 =>
              Result.roi = Fraction(Result.netProfit * 100, Result.totalCost)

C13_Witness ==
    /\ pc = "returned"
    /\ Result.totalBets = 2
    /\ Result.wins = 1
    /\ Result.totalCost > 0
    /\ Result.netProfit < 0
    /\ Result.bets[1].priceLimit # Result.bets[2].priceLimit

\* C14: earningsOverTime has one point per scored bet, in the order the
\* strategy returned the bets; the i-th point carries the i-th scored bet's
\* timestamp, the strategy's id and the sum of payout - cost over the first i
\* scored bets, so the last point carries netProfit.
C14_EarningsOverTime ==
    pc = "returned" =>
      LET scored == BetsOnTestMarkets(proposedBets)
          points == Result.earningsOverTime
      IN /\ Len(points) = Len(scored)
         /\ \A i \in 1..Len(points) :
              /\ points[i].timestamp = scored[i].timestamp
              /\ points[i].strategyId = strategy.id
              /\ points[i].cumulativeEarnings =
                   SeqSum([j \in 1..i |-> Result.bets[j].payout - Result.bets[j].cost])
         /\ Len(points) > 0 =>
              points[Len(points)].cumulativeEarnings = Result.netProfit

C14_Witness ==
    /\ pc = "returned"
    /\ Len(Result.earningsOverTime) = 2
    /\ Result.earningsOverTime[1].timestamp > Result.earningsOverTime[2].timestamp
    /\ Result.earningsOverTime[1].cumulativeEarnings # 0
    /\ Result.earningsOverTime[2].cumulativeEarnings
         # Result.earningsOverTime[1].cumulativeEarnings

\* C15: a second backtest call with the same strategy and the same markets
\* returns the result the first call returned.
C15_Deterministic ==
    (pc = "returned" /\ previousReturned # <<>>) => returned = previousReturned

\* the bets an exported strategy has returned: to backtest, and to a live call
BacktestBets == IF pc \in {"simulating", "returned"} THEN proposedBets ELSE <<>>
LiveBets == IF liveBets = <<>> THEN <<>> ELSE liveBets[1]

\* C16: every bet an exported strategy returns, to backtest or to a live
\* call, has 0.01 <= priceLimit <= 0.99.
C16_PriceLimitClamped ==
    strategy.type \in ReferenceTypes =>
      \A b \in Range(BacktestBets) \cup Range(LiveBets) :
        1 <= b.priceLimit /\ b.priceLimit <= 99

C16_Witness ==
    /\ strategy.type = "copy_trading"
    /\ pc = "simulating"
    /\ \E i \in 1..Len(proposedBets), m \in Range(preparedTestMarkets) :
         /\ proposedBets[i].priceLimit = 99
         /\ proposedBets[i].marketId = m.marketId
         /\ \E t \in Range(m.trades) : t.price = 99 /\ t.amount = 1000
    /\ \E i \in 1..Len(LiveBets) : LiveBets[i].priceLimit = 99

\* the bets of an exported strategy when every threshold and size is read
\* from the parameters of the strategy value itself
BetsFromParameters(strat, ms, heap, mode, clock) ==
    CASE strat.type = "copy_trading" ->
           CopyTradingBets(ms, mode, clock, strat.parameters)
      [] strat.type = "spike_detection" ->
           SpikeDetectionBets(ms, heap, mode, clock, strat.parameters)
      [] strat.type = "market_making" ->
           MarketMakingBets(ms, heap, mode, clock, strat.parameters)

\* C17: the bets an exported strategy returns to backtest are the bets
\* computed from the parameters of the strategy value being backtested, also
\* after the improvement loop replaced them.
C17_ParametersDriveBets ==
    (pc = "simulating" /\ strategy.type \in ReferenceTypes) =>
      proposedBets = BetsFromParameters(strategy, preparedTestMarkets,
                                        outcomesHeap, "backtest", now)

\* the decision time of a market handed to a strategy, as the rule words it
DecisionTimeRule(market, mode) ==
    IF mode = "live" THEN now
    ELSE IF market.historicalPrices # <<>>
         THEN market.historicalPrices[Len(market.historicalPrices)].timestamp
    ELSE IF market.endDate # NullDate THEN market.endDate
    ELSE IF market.resolutionDate # NullDate THEN market.resolutionDate
    ELSE now

\* a market without the price points and trades later than time
TruncatedAt(market, time) ==
    [market EXCEPT
       !.historicalPrices = SelectSeq(@, LAMBDA p : p.timestamp <= time),
       !.trades = SelectSeq(@, LAMBDA t : t.timestamp <= time)]

\* bets carry the decision time of their market among ms, and are the bets
\* the strategy returns when every later price point and trade is removed
DecisionTimeRespected(bets, ms, context) ==
    LET mode == IF context = <<>> THEN "live" ELSE context[1].mode
    IN /\ \A b \in Range(bets) :
            \E m \in Range(ms) :
              /\ m.marketId = b.marketId
              /\ b.timestamp = DecisionTimeRule(m, mode)
       /\ bets = StrategyGenerateBets(
                    strategy,
                    [i \in 1..Len(ms) |->
                       TruncatedAt(ms[i], DecisionTimeRule(ms[i], mode))],
                    outcomesHeap, context, now)

\* C18: the decision time of a market is, in a backtest, the timestamp of the
\* last element of historicalPrices, else endDate, else resolutionDate, else
\* the wall clock, and in live mode the wall clock; every bet of an exported
\* strategy carries the decision time of its market and depends on no price
\* point or trade later than it.
C18_DecisionTime ==
    strategy.type \in ReferenceTypes =>
      /\ pc = "simulating" =>
           DecisionTimeRespected(proposedBets, preparedTestMarkets, backtestContext)
      /\ (liveBets # <<>> /\ previousReturned = <<>>) =>
           DecisionTimeRespected(LiveBets, markets, <<[mode |-> "live"]>>)

C18_Witness ==
    /\ pc = "simulating"
    /\ strategy.type = "copy_trading"
    /\ Len(preparedTestMarkets) = 1
    /\ preparedTestMarkets[1].historicalPrices = <<>>
    /\ preparedTestMarkets[1].endDate = NullDate
    /\ preparedTestMarkets[1].resolutionDate # NullDate
    /\ \E t \in Range(preparedTestMarkets[1].trades) :
         /\ t.timestamp > preparedTestMarkets[1].resolutionDate
         /\ t.amount >= 1000
    /\ Len(proposedBets) = 3
    /\ proposedBets[1].timestamp = preparedTestMarkets[1].resolutionDate
    /\ Len(LiveBets) = 0
    /\ liveBets # <<>>

\* C19: in live mode an exported strategy returns bets only for markets with
\* resolvedOutcome = null and active = true; in a backtest every market
\* handed to it may get bets.
C19_Eligibility ==
    strategy.type \in ReferenceTypes =>
      \A b \in Range(LiveBets) :
        /\ MarketById(b.marketId).resolvedOutcome = NullOutcome
        /\ MarketById(b.marketId).active

C19_Witness ==
    /\ strategy.type = "copy_trading"
    /\ Len(markets) = 2
    /\ markets[1].resolvedOutcome # NullOutcome
    /\ markets[1].active
    /\ markets[1].trades = markets[2].trades
    /\ Len(LiveBets) = 3
    /\ \A i \in 1..3 : LiveBets[i].marketId = 2
    /\ pc = "simulating"
    /\ \E i \in 1..Len(proposedBets) : proposedBets[i].marketId = 1

\* the positions of s whose element is a bet on market id
BetsOn(bets, id) ==
    SeqFilterIdx(bets, {i \in 1..Len(bets) : bets[i].marketId = id}, 1)

\* bets are what the whale-copy rule gives for market m at time decisionTime
WhaleRule(bets, m, decisionTime, params) ==
    LET qualifying ==
          {i \in 1..Len(m.trades) :
             /\ m.trades[i].amount >= params.minWhaleVolume
             /\ 0 <= decisionTime - m.trades[i].timestamp
             /\ (decisionTime - m.trades[i].timestamp) * 3600 <= params.copyDelay}
        n == Len(bets)
    IN IF m.liquidity < params.minMarketLiquidity THEN n = 0
       ELSE
         /\ n = IF Cardinality(qualifying) < params.maxBetsPerMarket
                THEN Cardinality(qualifying) ELSE params.maxBetsPerMarket
         /\ \E f \in [1..n -> qualifying] :
              /\ \A j, k \in 1..n : j # k => f[j] # f[k]
              /\ \A k \in 1..n :
                   LET trade == m.trades[f[k]]
                       raised == trade.price + 2
                   IN /\ bets[k].outcome = trade.outcome
                      /\ bets[k].side = trade.side
                      /\ bets[k].amount = params.betSize
                      /\ bets[k].priceLimit =
                           (IF raised < 1 THEN 1 ELSE IF raised > 99 THEN 99
                            ELSE raised)
                      /\ bets[k].timestamp = decisionTime
              /\ \A q \in qualifying :
                   (\A k \in 1..n : f[k] # q) =>
                     \A k \in 1..n : m.trades[f[k]].amount >= m.trades[q].amount

Clamped(price) == IF price < 1 THEN 1 ELSE IF price > 99 THEN 99 ELSE price

\* bets are what the spike-reversal rule gives for market m at decisionTime
SpikeRule(bets, m, outcomes, decisionTime, params) ==
    LET points == m.historicalPrices
        window == {i \in 1..Len(points) :
                     /\ decisionTime - params.lookbackWindow <= points[i].timestamp
                     /\ points[i].timestamp <= decisionTime}
        n == Cardinality(window)
        total == SeqSum(SeqFilterIdx([i \in 1..Len(points) |-> points[i].price],
                                     window, 1))
        latest == CHOOSE i \in window :
                    \A j \in window :
                      \/ points[j].timestamp < points[i].timestamp
                      \/ points[j].timestamp = points[i].timestamp /\ j <= i
        currentPrice == points[latest].price
        above == currentPrice * n > total
        distance == IF above THEN currentPrice * n - total
                    ELSE total - currentPrice * n
    IN IF /\ Len(points) >= 10
          /\ n >= 5
          /\ distance * 100 > params.spikeThreshold * total
       THEN /\ Len(bets) = 1
            /\ bets[1].outcome = outcomes[1]
            /\ bets[1].amount = params.betSize
            /\ bets[1].timestamp = decisionTime
            /\ bets[1].side = IF above THEN "sell" ELSE "buy"
            /\ bets[1].priceLimit =
                 IF above THEN Clamped(currentPrice - 3) ELSE Clamped(currentPrice + 3)
       ELSE bets = <<>>

\* C21: spikeDetectionStrategy bets on a market exactly when it has at least
\* 10 price points, at least 5 of them in the lookback window that ends at the
\* decision time, and the latest price of the window deviates from the window
\* mean by more than spikeThreshold; the market then gets one bet on
\* outcomes[0]: a sell at clamp(currentPrice - 0.03) when the price is above
\* the mean, a buy at clamp(currentPrice + 0.03) when it is below.
C21_SpikeReversal ==
    strategy.type = "spike_detection" =>
      /\ pc = "simulating" =>
           \A m \in Range(preparedTestMarkets) :
             SpikeRule(BetsOn(proposedBets, m.marketId), m, outcomesHeap[m.outcomes],
                       DecisionTimeRule(m, "backtest"), SPIKE_DETECTION_DEFAULTS)
      /\ (liveBets # <<>> /\ previousReturned = <<>>) =>
           \A m \in Range(markets) :
             IF m.resolvedOutcome = NullOutcome /\ m.active
             THEN SpikeRule(BetsOn(LiveBets, m.marketId), m, outcomesHeap[m.outcomes],
                            now, SPIKE_DETECTION_DEFAULTS)
             ELSE BetsOn(LiveBets, m.marketId) = <<>>

C21_Witness ==
    /\ strategy = spikeDetectionStrategy
    /\ pc = "simulating"
    /\ Len(preparedTestMarkets) = 2
    /\ Len(preparedTestMarkets[1].historicalPrices) = 24
    /\ \A i \in 1..23 : preparedTestMarkets[1].historicalPrices[i].price = 50
    /\ preparedTestMarkets[1].historicalPrices[24].price = 60
    /\ Len(proposedBets) = 2
    /\ proposedBets[1].marketId = 1
    /\ proposedBets[1].side = "sell"
    /\ proposedBets[1].priceLimit = 57
    /\ proposedBets[1].outcome = "Yes"
    /\ proposedBets[2].side = "buy"
    /\ proposedBets[2].priceLimit = 43

\* bets are what the market-making rule gives for market m at decisionTime
MarketMakingRule(bets, m, outcomes, decisionTime, params) ==
    IF m.liquidity >= params.minLiquidity /\ m.historicalPrices # <<>>
    THEN LET currentPrice == m.historicalPrices[Len(m.historicalPrices)].price
         IN /\ Len(bets) = 2
            /\ \A k \in 1..2 :
                 /\ bets[k].outcome = outcomes[1]
                 /\ bets[k].amount = params.betSizePerSide
                 /\ bets[k].timestamp = decisionTime
            /\ bets[1].side = "buy"
            /\ bets[2].side = "sell"
            /\ \E spread \in params.minSpread..params.maxSpread :
                 /\ bets[1].priceLimit = Clamped(currentPrice - spread \div 2)
                 /\ bets[2].priceLimit = Clamped(currentPrice + spread \div 2)
            /\ bets[1].priceLimit <= bets[2].priceLimit
    ELSE bets = <<>>

\* C22: marketMakingStrategy gives every market with liquidity >= minLiquidity
\* and a non-empty price history exactly two bets on outcomes[0], a buy at
\* clamp(currentPrice - spread/2) and a sell at clamp(currentPrice + spread/2)
\* with minSpread <= spread <= maxSpread, so the buy priceLimit is not above
\* the sell priceLimit; every other market gets no bet.
C22_MarketMaking ==
    strategy.type = "market_making" =>
      /\ pc = "simulating" =>
           \A m \in Range(preparedTestMarkets) :
             MarketMakingRule(BetsOn(proposedBets, m.marketId), m,
                              outcomesHeap[m.outcomes],
                              DecisionTimeRule(m, "backtest"), MARKET_MAKING_DEFAULTS)
      /\ (liveBets # <<>> /\ previousReturned = <<>>) =>
           \A m \in Range(markets) :
             IF m.resolvedOutcome = NullOutcome /\ m.active
             THEN MarketMakingRule(BetsOn(LiveBets, m.marketId), m,
                                   outcomesHeap[m.outcomes], now,
                                   MARKET_MAKING_DEFAULTS)
             ELSE BetsOn(LiveBets, m.marketId) = <<>>

C22_Witness ==
    /\ strategy = marketMakingStrategy
    /\ pc = "simulating"
    /\ Len(preparedTestMarkets) = 2
    /\ Len(preparedTestMarkets[1].historicalPrices) = 2
    /\ preparedTestMarkets[1].historicalPrices[1].price = 40
    /\ preparedTestMarkets[1].historicalPrices[2].price = 60
    /\ preparedTestMarkets[2].historicalPrices = <<>>
    /\ Len(proposedBets) = 2
    /\ proposedBets[1].priceLimit = 56
    /\ proposedBets[2].priceLimit = 64

RECURSIVE SumOfCounts(_, _)
\* the sum of f over the keys
SumOfCounts(f, keys) ==
    IF keys = {} THEN 0
    ELSE LET k == CHOOSE x \in keys : TRUE
         IN f[k] + SumOfCounts(f, keys \ {k})

\* C24: calculateHistoricalStats divides by no zero: on an empty market set
\* it returns totalMarkets = 0, resolvedMarkets = 0, avgVolume = 0 and
\* avgLiquidity = 0; on every set totalMarkets is the number of markets,
\* resolvedMarkets the number with a non-null resolvedOutcome, and the counts
\* of topOutcomes sum to resolvedMarkets.
C24_HistoricalStats ==
    historicalStats # <<>> =>
      LET stats == historicalStats[1]
      IN /\ stats.totalMarkets = Len(markets)
         /\ stats.resolvedMarkets = ResolvedCount
         /\ stats.resolvedMarkets <= stats.totalMarkets
         /\ SumOfCounts(stats.topOutcomes, DOMAIN stats.topOutcomes)
              = stats.resolvedMarkets
         /\ stats.avgVolume.d # 0
         /\ stats.avgLiquidity.d # 0
         /\ Len(markets) = 0 =>
              /\ stats.avgVolume = Zero
              /\ stats.avgLiquidity = Zero
              /\ stats.resolvedMarkets = 0
         /\ Len(markets) > 0 =>
              /\ stats.avgVolume.n = SeqSum([i \in 1..Len(markets) |-> markets[i].volume])
              /\ stats.avgVolume.d = Len(markets)

C24_Witness ==
    /\ historicalStats # <<>>
    /\ Len(markets) = 0
    /\ historicalStats[1].totalMarkets = 0
    /\ historicalStats[1].avgLiquidity = Zero
    /\ pagePc = "runBacktests"

----------------------------------------------------------------------------
(* C25 *)

\* C25: a market pushed by the data route whose source gave no liquidity has
\* the sum of amount * price over its 10 most recent trades as liquidity, and
\* one whose source gave no volume has the sum of amount * price over all its
\* trades as volume.
C25_DerivedSummaries ==
    routePc = "pushed" =>
      /\ (rawMarket[1].liquidity = 0 /\ Len(processed.trades) > 0) =>
           processed.liquidity =
             EstimateLiquidityFromTrades(SortByTimestamp(processed.trades))
      /\ rawMarket[1].volume = 0 =>
           processed.volume = CalculateVolumeFromTrades(processed.trades)

----------------------------------------------------------------------------
(* C26, C27 *)

\* no step of handleStart or startSimulation is pending: the promise was
\* never made, was resolved and awaited, or was rejected
SimulationStopped == simPc \in {"idle", "rejected"}

\* C26: every simulation that was started ends with simulation.isRunning false
\* and the local isRunning of the controls false, so that Start is enabled
\* again, whatever happened during its epochs: when nothing of it is left to
\* run, both flags are down.
C26_SimulationTerminates ==
    SimulationStopped => (~controlsIsRunning /\ ~simulation.isRunning)

\* the catch block of epoch e has logged an error in the simulation
ErrorLogged(e) ==
    \E i \in 1..Len(simulation.logs) : simulation.logs[i].epoch = e

\* C27: a simulation in which the failure of an LLM request was caught and
\* logged in epoch e has, when nothing of it is left to run, run every epoch
\* after e, with currentEpoch at totalEpochs and progress at 100.
C27_EpochIsolation ==
    \A e \in 1..MaxEpochs :
      (SimulationStopped /\ ErrorLogged(e)) =>
        /\ simulation.currentEpoch = simulation.totalEpochs
        /\ simulation.progress = 100
        /\ \A later \in (e + 1)..simulation.totalEpochs : later \in epochResults

----------------------------------------------------------------------------
(* C28 *)

\* the pool with the resolvedOutcome of the test markets replaced by label
Relabelled(ms, test, label) ==
    [i \in 1..Len(ms) |->
       IF i \in Range(test) THEN [ms[i] EXCEPT !.resolvedOutcome = label[i]]
       ELSE ms[i]]

\* what a scored bet keeps of the bet the strategy proposed
ProposedPart(backtestBets) ==
    [i \in 1..Len(backtestBets) |->
       [marketId |-> backtestBets[i].marketId, outcome |-> backtestBets[i].outcome,
        side |-> backtestBets[i].side, amount |-> backtestBets[i].amount,
        priceLimit |-> backtestBets[i].priceLimit,
        timestamp |-> backtestBets[i].timestamp]]

\* the result of the same backtest on the relabelled pool
RelabelledResult(label) ==
    Backtest(strategy, Relabelled(markets, testMarkets, label), trainingRatio,
             outcomesHeap, now)

\* C28: the backtest of a reference strategy on a pool that differs only in
\* the resolvedOutcome of its test markets scores the same bets in the same
\* order: marketId, outcome, side, amount, priceLimit and timestamp agree.
C28_OutcomeIndependence ==
    (pc = "returned" /\ strategy.type \in ReferenceTypes) =>
      \A label \in [Range(testMarkets) -> {"Yes", "No"}] :
        ProposedPart(RelabelledResult(label).bets) = ProposedPart(Result.bets)

\* a backtest with a scored bet that another resolution turns from a win
\* into a loss or back
C28_Witness ==
    /\ pc = "returned"
    /\ strategy.type \in ReferenceTypes
    /\ Len(Result.bets) > 0
    /\ \E label \in [Range(testMarkets) -> {"Yes", "No"}] :
         /\ RelabelledResult(label).wins # Result.wins
         /\ ProposedPart(RelabelledResult(label).bets) = ProposedPart(Result.bets)

----------------------------------------------------------------------------
(* C29 *)

\* C29: a backtest of the market-making strategy has as many wins as losses:
\* of the two bets on a test market exactly one wins, so a result with bets
\* has a winRate of 50 and totalWinnings of betSizePerSide for every pair.
C29_MarketMakingEven ==
    (pc = "returned" /\ strategy.type = "market_making") =>
      /\ Result.wins = Result.losses
      /\ \A i \in 1..Len(markets) :
           LET bets == BetsOn(Result.bets, markets[i].marketId)
           IN Len(bets) > 0 =>
                /\ Len(bets) = 2
                /\ {bets[1].side, bets[2].side} = {"buy", "sell"}
                /\ Cardinality({k \in 1..2 : bets[k].result = "win"}) = 1
      /\ Result.totalBets > 0 =>
           /\ Result.winRate.n = 50 * Result.winRate.d
           /\ Result.totalWinnings =
                MARKET_MAKING_DEFAULTS.betSizePerSide * 100 * (Result.totalBets \div 2)

\* two markets, one resolved to outcomes[0] and one against it, both quoted
C29_Witness ==
    /\ pc = "returned"
    /\ strategy.type = "market_making"
    /\ Result.totalBets = 4
    /\ \E i, j \in 1..Len(markets) :
         /\ markets[i].resolvedOutcome = "Yes"
         /\ markets[j].resolvedOutcome = "No"
         /\ Len(BetsOn(Result.bets, markets[i].marketId)) = 2
         /\ Len(BetsOn(Result.bets, markets[j].marketId)) = 2

----------------------------------------------------------------------------
(* C30 *)

\* the price points behind the bets of a strategy of kind type on snapshot m,
\* decided at decisionTime: the last point of the history for market making,
\* the points of the lookback window for spike reversal
PriceBasis(m, type, decisionTime) ==
    IF type = "market_making"
    THEN {m.historicalPrices[Len(m.historicalPrices)]}
    ELSE {m.historicalPrices[k] : k \in
            {k \in 1..Len(m.historicalPrices) :
               /\ m.historicalPrices[k].timestamp
                    >= decisionTime - SPIKE_DETECTION_DEFAULTS.lookbackWindow
               /\ m.historicalPrices[k].timestamp <= decisionTime}}

\* C30: every bet of spike reversal and of market making is priced from price
\* points of the outcome it bets on, outcomes[0]: the current price and, for
\* spike reversal, every price of the window mean carry that outcome label.
C30_PriceBasis ==
    (pc = "returned" /\ strategy.type \in {"spike_detection", "market_making"}) =>
      \A i \in 1..Len(preparedTestMarkets) :
        LET m == preparedTestMarkets[i]
            bets == BetsOn(proposedBets, m.marketId)
        IN Len(bets) > 0 =>
             \A p \in PriceBasis(m, strategy.type, bets[1].timestamp) :
               p.outcome = bets[1].outcome

====
